---- MODULE Spec2Model ----
(***************************************************************************)
(* Rollback engine of bevy_ggrs: the request executor (GGRSStage::run,     *)
(* run_schedules), the per-kind snapshot histories (ComponentHistory,      *)
(* ResourceHistory, GgrsSnapshots) and the entity reconciliation on load   *)
(* (GgrsEntitySnapshotPlugin::load).                                       *)
(***************************************************************************)
EXTENDS Integers, Sequences, FiniteSets, TLC

\* ------------------------------------------------------------------ bounds
\* Frames the session may reach (the Advance request is not issued beyond it).
MaxFrame == 3
\* Largest max_prediction_window() a session is configured with.
MaxW == 3
\* Entity identities the engine hands out (1..MaxEnt); spawning stops there.
MaxEnt == 5
\* Requests the free-running request source issues in one behaviour.
MaxReq == 5
\* Driver invocations in one behaviour.
MaxRuns == 2
\* Elapsed time between two invocations, in tenths of the tick period.
MaxDelta == 22
\* Changes of the Session resource by the host in one behaviour.
MaxSwaps == 1
\* set calls on one input encoding in one behaviour.
MaxSets == 3
\* Frames a peer of the checksum comparison advances.
MaxSteps == 2
\* try_set_input calls on one session in one behaviour.
MaxCalls == 2
\* Rounds of run_schedules, and request events published, in one behaviour.
MaxRounds == 3
MaxEvents == 3

\* ------------------------------------------------------------- value sets
\* Option::None of a component or resource value.
None == "none"
\* Values of the rolled-back component C and resource R.
Vals == {"a", "b"}
\* An entity without a Rollback component.
NoRid == 0
\* RollbackIds the host hands out.
Rids == {1, 2, 3, 4}
\* No entity (Option<Entity>::None in the reconciliation table).
NoEnt == 0

VARIABLES
    world,      \* live entities: entity -> [rb: Rollback id or NoRid, c: C or None]
    nextEnt,    \* next entity identity the engine hands out
    res,        \* the resource R, or None
    frame,      \* the Frame / RollbackFrameCount resource
    compHist,   \* ComponentHistory<C>.states, front first
    resHist,    \* ResourceHistory<R>.states, front first
    entSnaps,   \* GgrsSnapshots<Entity>, front first
    copySnaps,  \* GgrsSnapshots<R> of the copy strategy, front first
    entityMap,  \* RollbackEntityMap: set of <<key, value>>
    cmds,       \* Commands queued by the systems of the running schedule
    W,          \* the session's max_prediction_window()
    kinds,      \* state-kinds the host registered
    hostOps,    \* what the host's game logic does in GgrsSchedule
    sessFrame,  \* the session's current frame
    issued,     \* requests the request source has issued so far
    batch,      \* the request list of the running advance_frame call
    queue,      \* requests of the batch not yet started
    cur,        \* the request being executed, or NoReq
    sysq,       \* systems of the running schedule not yet run
    ran,        \* systems of the running schedule that have run, in order
    done,       \* requests of the batch that have completed, in order
    panicked,   \* a handler panicked: the driver is gone
    missed,     \* load handlers of the running request that found no entry
    pushLog,    \* per history, the MaxW + 1 entries pushed last, newest first
    pre,        \* live state when the running (or last) request started
    prePrev,    \* live state when the request before it started
    lastReq,    \* the request completed last
    prevReq,    \* the request completed before it
    drv,        \* GGRSStage's timing state and the Session resource
    inp,        \* an input encoding under a sequence of set calls
    chk,        \* two peers with their checksum parts
    ctx,        \* the per-request context resources present in the world
    stage       \* GGRSStage: its frame counter and its world snapshots

vars == <<world, nextEnt, res, frame, compHist, resHist, entSnaps, copySnaps,
          entityMap, cmds, W, kinds, hostOps, sessFrame, issued, batch, queue,
          cur, sysq, ran, done, panicked, missed, pushLog, pre, prePrev, lastReq,
          prevReq, drv, inp, chk, ctx, stage>>

\* The state the systems of a schedule and the request sources leave alone.
aux == <<drv, inp, chk, ctx>>

\* ----------------------------------------------------------------- helpers
Min(a, b) == IF a <= b THEN a ELSE b

Max(a, b) == IF a >= b THEN a ELSE b

\* The first n elements of s (VecDeque::truncate).
Take(s, n) == SubSeq(s, 1, Min(n, Len(s)))

Range(s) == {s[i] : i \in 1..Len(s)}

\* Every ordering of the finite set S.
Perms(S) == {p \in [1..Cardinality(S) -> S] : \A i, j \in 1..Cardinality(S) : p[i] = p[j] => i = j}

\* The elements of the finite set of numbers S, ascending.
RECURSIVE SortedSeq(_)
SortedSeq(S) ==
    IF S = {} THEN <<>>
    ELSE LET m == CHOOSE x \in S : \A y \in S : x <= y
         IN <<m>> \o SortedSeq(S \ {m})

NoReq == [op |-> "none", frame |-> 0]

SaveReq(f) == [op |-> "Save", frame |-> f]

LoadReq(f) == [op |-> "Load", frame |-> f]

AdvanceReq == [op |-> "Advance", frame |-> 0]

\* Entities carrying a Rollback component (Query<(&Rollback, Entity)>).
RollbackEnts(w) == {e \in DOMAIN w : w[e].rb # NoRid}

\* The RollbackIds carried by live entities.
LiveRids(w) == {w[e].rb : e \in RollbackEnts(w)}

\* The live entity carrying RollbackId r.
EntOf(w, r) == CHOOSE e \in RollbackEnts(w) : w[e].rb = r

\* ------------------------------------------------ snapshot history stores
\* The newest entry is dropped instead of the oldest.
PopFront(states) == Tail(states)

\* VecDeque::pop_back.
PopBack(states) == SubSeq(states, 1, Len(states) - 1)

\* while history.states.len() > session.max_prediction_window() { pop_back }
RECURSIVE TrimHistory(_, _)
TrimHistory(states, w) ==
    IF Len(states) > w THEN TrimHistory(PopBack(states), w) ELSE states

\* The trim runs before the push instead of after it.
PushHistoryTrimFirst(states, w, entry) == <<entry>> \o TrimHistory(states, w)

\* history.states.push_front((*frame, map)), then the trim.
PushHistory(states, w, entry) == TrimHistory(<<entry>> \o states, w)

\* The search runs from the back: the index of the oldest entry whose frame
\* is f, 0 when there is none.
FindFrameBack(states, f) ==
    IF \E i \in 1..Len(states) : states[i].frame = f
    THEN CHOOSE i \in 1..Len(states) :
            /\ states[i].frame = f
            /\ \A j \in (i + 1)..Len(states) : states[j].frame # f
    ELSE 0

\* states.iter().find(|(f, _)| *f == *frame): the index of the first entry
\* from the front whose frame is f, 0 when there is none.
FindFrame(states, f) ==
    IF \E i \in 1..Len(states) : states[i].frame = f
    THEN CHOOSE i \in 1..Len(states) :
            /\ states[i].frame = f
            /\ \A j \in 1..(i - 1) : states[j].frame # f
    ELSE 0

\* GgrsSnapshots::push: entries beyond the window are discarded before the
\* newest is inserted at the front; the store never holds more than w.
SnapshotsPush(store, w, entry) == Take(<<entry>> \o Take(store, Max(w - 1, 0)), w)

\* GgrsSnapshots::rollback: lookup by exact frame match; 0 when absent.
SnapshotsRollback(store, f) == FindFrame(store, f)

\* ------------------------------------------------------ deferred commands
InsertCmd(e, v) == [t |-> "insert", e |-> e, v |-> v]

RemoveCmd(e) == [t |-> "remove", e |-> e, v |-> None]

DespawnCmd(e) == [t |-> "despawn", e |-> e, v |-> None]

SpawnCmd(e) == [t |-> "spawn", e |-> e, v |-> None]

InsertResourceCmd(v) == [t |-> "insert_resource", e |-> NoEnt, v |-> v]

RemoveResourceCmd == [t |-> "remove_resource", e |-> NoEnt, v |-> None]

\* One command applied to st = [world, res, panic].
ApplyCmd(st, c) ==
    CASE c.t = "insert" ->
            IF c.e \in DOMAIN st.world
            THEN [st EXCEPT !.world = [st.world EXCEPT ![c.e].c = c.v]]
            ELSE [st EXCEPT !.panic = TRUE]
      [] c.t = "remove" ->
            IF c.e \in DOMAIN st.world
            THEN [st EXCEPT !.world = [st.world EXCEPT ![c.e].c = None]]
            ELSE [st EXCEPT !.panic = TRUE]
      [] c.t = "despawn" ->
            [st EXCEPT !.world = [e \in (DOMAIN st.world) \ {c.e} |-> st.world[e]]]
      [] c.t = "spawn" ->
            [st EXCEPT !.world = [e \in (DOMAIN st.world) \cup {c.e} |->
                                    IF e = c.e THEN [rb |-> NoRid, c |-> None]
                                    ELSE st.world[e]]]
      [] c.t = "insert_resource" -> [st EXCEPT !.res = c.v]
      [] c.t = "remove_resource" -> [st EXCEPT !.res = None]

\* The queued commands applied in order (apply_deferred, and the end of a
\* schedule run).
RECURSIVE ApplyCmds(_, _)
ApplyCmds(st, cs) ==
    IF cs = <<>> \/ st.panic THEN st
    ELSE ApplyCmds(ApplyCmd(st, Head(cs)), Tail(cs))

\* ------------------------------------------------- ComponentHistory<C>
\* The map ComponentHistory::save builds: Rollback id -> clone of C, for the
\* entities carrying both.
ComponentMap(w) ==
    [r \in {w[e].rb : e \in {x \in RollbackEnts(w) : w[x].c # None}} |-> w[EntOf(w, r)].c]

ComponentHistorySave(states, w, f, wld) ==
    PushHistory(states, w, [frame |-> f, map |-> ComponentMap(wld)])

\* The snapshot is looked up under the entity instead of its Rollback id.
SnapOfByEntity(map, wld, e) == IF e \in DOMAIN map THEN map[e] ELSE None

\* What map.get(rollback) gives for entity e.
SnapOf(map, wld, e) == IF wld[e].rb \in DOMAIN map THEN map[wld[e].rb] ELSE None

\* ComponentHistory::load. The result is [panic, world, cmds].
ComponentHistoryLoad(states, f, wld) ==
    LET idx == FindFrame(states, f) IN
    IF idx = 0 THEN [panic |-> TRUE, world |-> wld, cmds |-> <<>>]
    ELSE
    LET map == states[idx].map
        ents == SortedSeq(RollbackEnts(wld))
        restored == {e \in RollbackEnts(wld) : SnapOf(map, wld, e) # None}
        cmd(e) == IF wld[e].c = None THEN InsertCmd(e, SnapOf(map, wld, e))
                  ELSE RemoveCmd(e)
        queued == SelectSeq(ents, LAMBDA e : (wld[e].c = None) # (SnapOf(map, wld, e) = None))
    IN [panic |-> Cardinality(restored) # Cardinality(DOMAIN map),
        world |-> [e \in DOMAIN wld |->
                    IF e \in restored /\ wld[e].c # None
                    THEN [wld[e] EXCEPT !.c = SnapOf(map, wld, e)]
                    ELSE wld[e]],
        cmds |-> [i \in 1..Len(queued) |-> cmd(queued[i])]]

\* --------------------------------------------------- ResourceHistory<R>
ResourceHistorySave(states, w, f, r) ==
    PushHistory(states, w, [frame |-> f, snap |-> r])

\* A resource the snapshot lacks is left in place.
RestoreResourceKeep(r, snap) ==
    CASE r = None /\ snap # None -> [res |-> r, cmds |-> <<InsertResourceCmd(snap)>>]
      [] r # None /\ snap # None -> [res |-> snap, cmds |-> <<>>]
      [] OTHER -> [res |-> r, cmds |-> <<>>]

\* The match (resource, snapshot) of the resource load handlers:
\* [res, cmds].
RestoreResource(r, snap) ==
    CASE r = None /\ snap = None -> [res |-> r, cmds |-> <<>>]
      [] r = None /\ snap # None -> [res |-> r, cmds |-> <<InsertResourceCmd(snap)>>]
      [] r # None /\ snap = None -> [res |-> r, cmds |-> <<RemoveResourceCmd>>]
      [] OTHER -> [res |-> snap, cmds |-> <<>>]

\* ResourceHistory::load. The result is [panic, found, res, cmds].
ResourceHistoryLoad(states, f, r) ==
    LET idx == FindFrame(states, f) IN
    IF idx = 0 THEN [panic |-> FALSE, found |-> FALSE, res |-> r, cmds |-> <<>>]
    ELSE LET out == RestoreResource(r, states[idx].snap)
         IN [panic |-> FALSE, found |-> TRUE, res |-> out.res, cmds |-> out.cmds]

\* ------------------------------------ GgrsResourceSnapshotCopyPlugin<R>
ResourceCopySave(store, w, f, r) ==
    SnapshotsPush(store, w, [frame |-> f, snap |-> r])

\* GgrsResourceSnapshotCopyPlugin::load. The result is [panic, found, res, cmds].
ResourceCopyLoad(store, f, r) ==
    LET idx == SnapshotsRollback(store, f) IN
    IF idx = 0 THEN [panic |-> TRUE, found |-> FALSE, res |-> r, cmds |-> <<>>]
    ELSE LET out == RestoreResource(r, store[idx].snap)
         IN [panic |-> FALSE, found |-> TRUE, res |-> out.res, cmds |-> out.cmds]

\* --------------------------------------------- GgrsEntitySnapshotPlugin
\* The snapshot GgrsEntitySnapshotPlugin::save takes: Rollback id -> Entity.
EntitySnapshot(wld) == [r \in LiveRids(wld) |-> EntOf(wld, r)]

EntitySnapshotSave(store, w, f, wld) ==
    SnapshotsPush(store, w, [frame |-> f, snap |-> EntitySnapshot(wld)])

\* The table is filled from the snapshot only: the current entity of an id
\* is never entered.
RollbackMappingSnapshotOnly(snapshot, wld) ==
    [r \in (DOMAIN snapshot) \cup LiveRids(wld) |->
        <<NoEnt, IF r \in DOMAIN snapshot THEN snapshot[r] ELSE NoEnt>>]

\* rollback_mapping: Rollback id -> <<current entity, old entity>>, filled
\* from the snapshot, then from the query.
RollbackMapping(snapshot, wld) ==
    [r \in (DOMAIN snapshot) \cup LiveRids(wld) |->
        <<IF r \in LiveRids(wld) THEN EntOf(wld, r) ELSE NoEnt,
          IF r \in DOMAIN snapshot THEN snapshot[r] ELSE NoEnt>>]

\* EntityMap::insert: the key's earlier entry, if any, is replaced.
MapInsert(m, k, v) == {p \in m : p[1] # k} \cup {<<k, v>>}

\* The arm of an object that is only current leaves it alive.
ReconcileOneKeep(acc, pair) ==
    LET current_entity == pair[1]
        old_entity == pair[2]
    IN CASE current_entity # NoEnt /\ old_entity # NoEnt ->
                [acc EXCEPT !.map = MapInsert(acc.map, current_entity, old_entity)]
         [] current_entity # NoEnt /\ old_entity = NoEnt -> acc
         [] current_entity = NoEnt /\ old_entity # NoEnt ->
                [acc EXCEPT !.cmds = Append(acc.cmds, SpawnCmd(acc.next)),
                            !.map = MapInsert(acc.map, old_entity, acc.next),
                            !.next = acc.next + 1]
         [] OTHER -> [acc EXCEPT !.panic = TRUE]

\* One arm of the match over (current_entity, old_entity); acc is
\* [map, cmds, next, panic].
ReconcileOne(acc, pair) ==
    LET current_entity == pair[1]
        old_entity == pair[2]
    IN CASE current_entity # NoEnt /\ old_entity # NoEnt ->
                [acc EXCEPT !.map = MapInsert(acc.map, current_entity, old_entity)]
         [] current_entity # NoEnt /\ old_entity = NoEnt ->
                [acc EXCEPT !.cmds = Append(acc.cmds, DespawnCmd(current_entity))]
         [] current_entity = NoEnt /\ old_entity # NoEnt ->
                [acc EXCEPT !.cmds = Append(acc.cmds, SpawnCmd(acc.next)),
                            !.map = MapInsert(acc.map, old_entity, acc.next),
                            !.next = acc.next + 1]
         [] OTHER -> [acc EXCEPT !.panic = TRUE]

\* for (current_entity, old_entity) in rollback_mapping.values(), in the
\* order `order` of the table's keys.
RECURSIVE Reconcile(_, _, _)
Reconcile(acc, table, order) ==
    IF order = <<>> THEN acc
    ELSE Reconcile(ReconcileOne(acc, table[Head(order)]), table, Tail(order))

\* GgrsEntitySnapshotPlugin::load. The result is [panic, found, map, cmds, next].
EntitySnapshotLoad(store, f, wld, next, order) ==
    LET idx == SnapshotsRollback(store, f) IN
    IF idx = 0
    THEN [panic |-> TRUE, found |-> FALSE, map |-> {}, cmds |-> <<>>, next |-> next]
    ELSE LET out == Reconcile([map |-> {}, cmds |-> <<>>, next |-> next, panic |-> FALSE],
                              RollbackMapping(store[idx].snap, wld), order)
         IN [panic |-> out.panic, found |-> TRUE, map |-> out.map,
             cmds |-> out.cmds, next |-> out.next]

\* The entries of the Load are added to those the resource already holds.
RollbackEntityMapMerged(map, entity_map) == map \cup entity_map

\* *map = RollbackEntityMap::new(entity_map): the resource is overwritten
\* with the map the Load built from EntityMap::default().
RollbackEntityMapNew(map, entity_map) == entity_map

\* The orders in which the table of a Load(f) can be walked.
TableOrders(store, f, wld) ==
    LET idx == SnapshotsRollback(store, f) IN
    IF idx = 0 THEN {<<>>}
    ELSE Perms(DOMAIN RollbackMapping(store[idx].snap, wld))

\* Placeholders a Load(f) would spawn.
Placeholders(store, f, wld) ==
    LET idx == SnapshotsRollback(store, f) IN
    IF idx = 0 THEN 0 ELSE Cardinality((DOMAIN store[idx].snap) \ LiveRids(wld))

\* ------------------------------------------- GGRSStage world snapshots
\* WorldSnapshot::default(): a snapshot of nothing. frame is the frame a
\* snapshot was written for (kept for the comparison, not part of the
\* snapshot).
DefaultSnapshot == [frame |-> -1, map |-> <<>>, res |-> None]

\* WorldSnapshot::from_world: the components of the rollback objects and the
\* resource.
FromWorld(f, wld, r) == [frame |-> f, map |-> ComponentMap(wld), res |-> r]

\* WorldSnapshot::write_to_world: every rollback object gets the component
\* the snapshot holds for its id, or loses it; the resource likewise.
WriteToWorld(snapshot, wld) ==
    [world |-> [e \in DOMAIN wld |->
                  IF wld[e].rb = NoRid THEN wld[e]
                  ELSE [wld[e] EXCEPT !.c = IF wld[e].rb \in DOMAIN snapshot.map
                                             THEN snapshot.map[wld[e].rb] ELSE None]],
     res |-> snapshot.res]

\* if self.snapshots.is_empty() { for _ in 0..sess.max_prediction()
\* { self.snapshots.push(WorldSnapshot::default()) } }
InitSnapshots(snapshots, w) ==
    IF snapshots = <<>> THEN [i \in 1..w |-> DefaultSnapshot] ELSE snapshots

\* The slot of a save, frame.0 as usize % stage.snapshots.len().
SaveSlot(f, len) == f % len

\* The load reads the slot after the one of its frame.
LoadSlotNext(f, len) == (f + 1) % len

\* The slot of a load, frame.0 as usize % stage.snapshots.len().
LoadSlot(f, len) == f % len

\* The counter is left as it is after an Advance.
StageFrameKept(stage_frame, f) == stage_frame

\* stage.frame = frame.0 after the frame counter was stepped.
StageFrameAfterAdvance(stage_frame, f) == f

\* GGRSStage::save_world_using_reflection: [panic, stage]. saved keeps, per
\* frame, the snapshot of the last Save of that frame.
SaveWorldUsingReflection(stg, f, wld, r) ==
    IF stg.frame # f \/ Len(stg.snapshots) = 0
    THEN [panic |-> TRUE, stage |-> stg]
    ELSE LET snapshot == FromWorld(f, wld, r)
             pos == SaveSlot(f, Len(stg.snapshots))
         IN [panic |-> FALSE,
             stage |-> [stg EXCEPT !.snapshots[pos + 1] = snapshot,
                                   !.saved = [g \in (DOMAIN stg.saved) \cup {f} |->
                                                IF g = f THEN snapshot ELSE stg.saved[g]]]]

\* GGRSStage::load_world_using_reflection: [panic, stage, world, res].
\* loaded keeps the snapshot the last Load wrote to the world.
LoadWorldUsingReflection(stg, f, wld, r) ==
    IF Len(stg.snapshots) = 0
    THEN [panic |-> TRUE, stage |-> [stg EXCEPT !.frame = f], world |-> wld, res |-> r]
    ELSE LET pos == LoadSlot(f, Len(stg.snapshots))
             snapshot_to_load == stg.snapshots[pos + 1]
             out == WriteToWorld(snapshot_to_load, wld)
         IN [panic |-> FALSE,
             stage |-> [stg EXCEPT !.frame = f, !.loaded = <<snapshot_to_load>>],
             world |-> out.world, res |-> out.res]

\* ------------------------------------------------------------- schedules
SaveSystem(k) ==
    CASE k = "world" -> "SaveWorldUsingReflection"
      [] k = "comp" -> "ComponentHistorySave"
      [] k = "res" -> "ResourceHistorySave"
      [] k = "entity" -> "EntitySnapshotSave"
      [] k = "copy" -> "ResourceCopySave"

LoadSystem(k) ==
    CASE k = "world" -> "LoadWorldUsingReflection"
      [] k = "comp" -> "ComponentHistoryLoad"
      [] k = "res" -> "ResourceHistoryLoad"
      [] k = "entity" -> "EntitySnapshotLoad"
      [] k = "copy" -> "ResourceCopyLoad"

\* The system sets of the load schedule, in the order they run.
LoadWorldSetOrder == <<"Entity", "EntityFlush", "Data">>

\* Self::load.in_set(LoadWorldSet::Entity)
EntityLoadSet == "Entity"

\* The resource load is put in the set of the entity load.
ResourceCopyLoadSetEntity == "Entity"

\* Self::load.in_set(LoadWorldSet::Data)
ResourceCopyLoadSet == "Data"

\* The set a system of the load schedule runs in.
SystemSet(s) ==
    CASE s = "EntitySnapshotLoad" -> EntityLoadSet
      [] s = "ResourceCopyLoad" -> ResourceCopyLoadSet
      [] s = "EntityFlush" -> "EntityFlush"
      [] OTHER -> "Data"

SetRank(set) == CHOOSE i \in 1..Len(LoadWorldSetOrder) : LoadWorldSetOrder[i] = set

\* The systems of the load schedule for the registered kinds ks.
LoadSystems(ks) ==
    {LoadSystem(k) : k \in ks} \cup (IF "entity" \in ks THEN {"EntityFlush"} ELSE {})

\* The orders a schedule run can take: systems of one set in any order, the
\* sets in their configured order.
LoadOrders(ks) ==
    {p \in Perms(LoadSystems(ks)) :
        \A i, j \in 1..Len(p) :
            i < j => SetRank(SystemSet(p[i])) <= SetRank(SystemSet(p[j]))}

SaveOrders(ks) == Perms({SaveSystem(k) : k \in ks})

Orders(op, ks) ==
    CASE op = "Save" -> SaveOrders(ks)
      [] op = "Load" -> LoadOrders(ks)
      [] OTHER -> {<<"GameLogic">>}

\* The largest and the smallest value of the i32 frame counter.
I32Max == 2147483647

I32Min == -I32Max - 1

\* frame.0 += 1 on an i32: what the step of the frame counter after an
\* Advance can give.  At i32::MAX the addition overflows: a build with
\* overflow checks (the debug profile) panics, a build without wraps.
FrameNext(f) ==
    IF f = I32Max
    THEN {[panic |-> TRUE, frame |-> f], [panic |-> FALSE, frame |-> I32Min]}
    ELSE {[panic |-> FALSE, frame |-> f + 1]}

\* -------------------------------------------------------- host game logic
NopOp == [t |-> "nop", e |-> NoEnt, r |-> NoRid, v |-> None]

\* What the game logic may do in one simulation step, by what the host's
\* systems touch: "comp" (the component C of rollback objects), "res" (the
\* resource R), "ents" (spawning and despawning rollback objects under a
\* RollbackId no live object carries).
HostChoices(ops, wld, r, next) ==
    {NopOp}
    \cup (IF "comp" \in ops
          THEN {[t |-> "set", e |-> e, r |-> NoRid, v |-> v] :
                    e \in RollbackEnts(wld), v \in Vals}
               \cup {[t |-> "unset", e |-> e, r |-> NoRid, v |-> None] :
                    e \in {x \in RollbackEnts(wld) : wld[x].c # None}}
          ELSE {})
    \cup (IF "res" \in ops
          THEN {[t |-> "setres", e |-> NoEnt, r |-> NoRid, v |-> v] :
                    v \in (Vals \cup {None}) \ {r}}
          ELSE {})
    \cup (IF "ents" \in ops
          THEN {[t |-> "spawn", e |-> next, r |-> rid, v |-> None] :
                    rid \in {x \in Rids \ LiveRids(wld) : next <= MaxEnt}}
               \cup {[t |-> "despawn", e |-> e, r |-> NoRid, v |-> None] :
                    e \in RollbackEnts(wld)}
          ELSE {})

\* The live state after the game logic's step: [world, res, next].
ApplyHost(op, wld, r, next) ==
    CASE op.t = "set" ->
            [world |-> [wld EXCEPT ![op.e].c = op.v], res |-> r, next |-> next]
      [] op.t = "unset" ->
            [world |-> [wld EXCEPT ![op.e].c = None], res |-> r, next |-> next]
      [] op.t = "setres" -> [world |-> wld, res |-> op.v, next |-> next]
      [] op.t = "spawn" ->
            [world |-> [e \in (DOMAIN wld) \cup {op.e} |->
                          IF e = op.e THEN [rb |-> op.r, c |-> op.v] ELSE wld[e]],
             res |-> r, next |-> next + 1]
      [] op.t = "despawn" ->
            [world |-> [e \in (DOMAIN wld) \ {op.e} |-> wld[e]], res |-> r, next |-> next]
      [] OTHER -> [world |-> wld, res |-> r, next |-> next]

\* The push log after entry was pushed: the MaxW + 1 newest pushes.
Logged(entry, log) == Take(<<entry>> \o log, MaxW + 1)

\* ------------------------------------------------------ the state record
\* What the systems of a schedule read and write.
Live ==
    [world |-> world, res |-> res, nextEnt |-> nextEnt, compHist |-> compHist,
     resHist |-> resHist, entSnaps |-> entSnaps, copySnaps |-> copySnaps,
     entityMap |-> entityMap, cmds |-> cmds, panic |-> FALSE, missed |-> missed,
     pushLog |-> pushLog, stage |-> stage]

\* The choices a system's run depends on beyond the state: the walk order of
\* the reconciliation table, the game logic's step.
Choices(s) ==
    CASE s = "EntitySnapshotLoad" -> TableOrders(entSnaps, frame, world)
      [] s = "GameLogic" -> HostChoices(hostOps, world, res, nextEnt)
      [] OTHER -> {NopOp}

\* apply_deferred of the running schedule.
Flush(S) ==
    LET out == ApplyCmds([world |-> S.world, res |-> S.res, panic |-> FALSE], S.cmds)
    IN [S EXCEPT !.world = out.world, !.res = out.res, !.cmds = <<>>,
                 !.panic = out.panic]

\* One system of a schedule, run on S with the frame f and window w.
RunOne(s, S, f, w, choice) ==
    CASE s = "ComponentHistorySave" ->
            [S EXCEPT !.compHist = ComponentHistorySave(S.compHist, w, f, S.world),
                      !.pushLog.comp = Logged([frame |-> f, map |-> ComponentMap(S.world)], @)]
      [] s = "ResourceHistorySave" ->
            [S EXCEPT !.resHist = ResourceHistorySave(S.resHist, w, f, S.res),
                      !.pushLog.res = Logged([frame |-> f, snap |-> S.res], @)]
      [] s = "EntitySnapshotSave" ->
            [S EXCEPT !.entSnaps = EntitySnapshotSave(S.entSnaps, w, f, S.world),
                      !.pushLog.entity = Logged([frame |-> f, snap |-> EntitySnapshot(S.world)], @)]
      [] s = "ResourceCopySave" ->
            [S EXCEPT !.copySnaps = ResourceCopySave(S.copySnaps, w, f, S.res),
                      !.pushLog.copy = Logged([frame |-> f, snap |-> S.res], @)]
      [] s = "ComponentHistoryLoad" ->
            LET out == ComponentHistoryLoad(S.compHist, f, S.world)
            IN [S EXCEPT !.world = out.world, !.cmds = S.cmds \o out.cmds,
                         !.panic = out.panic,
                         !.missed = IF FindFrame(S.compHist, f) = 0
                                    THEN S.missed \cup {s} ELSE S.missed]
      [] s = "ResourceHistoryLoad" ->
            LET out == ResourceHistoryLoad(S.resHist, f, S.res)
            IN [S EXCEPT !.res = out.res, !.cmds = S.cmds \o out.cmds,
                         !.panic = out.panic,
                         !.missed = IF out.found THEN S.missed ELSE S.missed \cup {s}]
      [] s = "ResourceCopyLoad" ->
            LET out == ResourceCopyLoad(S.copySnaps, f, S.res)
            IN [S EXCEPT !.res = out.res, !.cmds = S.cmds \o out.cmds,
                         !.panic = out.panic,
                         !.missed = IF out.found THEN S.missed ELSE S.missed \cup {s}]
      [] s = "EntitySnapshotLoad" ->
            LET out == EntitySnapshotLoad(S.entSnaps, f, S.world, S.nextEnt, choice)
            IN [S EXCEPT !.entityMap = RollbackEntityMapNew(@, out.map),
                         !.cmds = S.cmds \o out.cmds,
                         !.nextEnt = out.next, !.panic = out.panic,
                         !.missed = IF out.found THEN S.missed ELSE S.missed \cup {s}]
      [] s = "SaveWorldUsingReflection" ->
            LET out == SaveWorldUsingReflection(S.stage, f, S.world, S.res)
            IN [S EXCEPT !.stage = out.stage, !.panic = out.panic]
      [] s = "LoadWorldUsingReflection" ->
            LET out == LoadWorldUsingReflection(S.stage, f, S.world, S.res)
            IN [S EXCEPT !.stage = out.stage, !.world = out.world, !.res = out.res,
                         !.panic = out.panic]
      [] s = "EntityFlush" -> Flush(S)
      [] s = "GameLogic" ->
            LET out == ApplyHost(choice, S.world, S.res, S.nextEnt)
            IN [S EXCEPT !.world = out.world, !.res = out.res, !.nextEnt = out.next]

\* The variables the systems write, taken from S.
Commit(S) ==
    /\ world' = S.world
    /\ res' = S.res
    /\ nextEnt' = S.nextEnt
    /\ compHist' = S.compHist
    /\ resHist' = S.resHist
    /\ entSnaps' = S.entSnaps
    /\ copySnaps' = S.copySnaps
    /\ entityMap' = S.entityMap
    /\ cmds' = S.cmds
    /\ missed' = S.missed
    /\ pushLog' = S.pushLog
    /\ stage' = S.stage
    /\ panicked' = S.panic

\* ---------------------------------------------------- request executor
\* world.insert_resource(GameStateCell::<T>(cell)) before the save and the
\* load schedule, world.insert_resource(PlayerInputs::<T>(inputs)) before
\* the simulation step.
RequestContext(op) ==
    CASE op \in {"Save", "Load"} -> {"GameStateCell"}
      [] op = "Advance" -> {"PlayerInputs"}
      [] OTHER -> {}

\* Only the input context is removed after a request.
RemovedContextInputs(op) == IF op = "Advance" THEN {"PlayerInputs"} ELSE {}

\* world.remove_resource::<GameStateCell<T>>() and
\* world.remove_resource::<PlayerInputs<T>>() after the schedule has run.
RemovedContext(op) ==
    CASE op \in {"Save", "Load"} -> {"GameStateCell"}
      [] op = "Advance" -> {"PlayerInputs"}
      [] OTHER -> {}

\* The loop takes the last request of the list.
NextRequestLast(q) == q[Len(q)]

\* for request in requests: the request the loop takes next.
NextRequest(q) == Head(q)

\* for request in requests { match request { ... } }: the next request of
\* the batch starts; its frame and context are published and its schedule
\* is about to run.
StartRequest ==
    /\ ~panicked
    /\ cur = NoReq
    /\ queue # <<>>
    /\ cur' = NextRequest(queue)
    /\ queue' = Tail(queue)
    /\ frame' = IF cur'.op \in {"Save", "Load"} THEN cur'.frame ELSE frame
    /\ \E order \in Orders(cur'.op, kinds) : sysq' = order
    /\ ran' = <<>>
    /\ missed' = {}
    /\ pre' = [world |-> world, res |-> res]
    /\ prePrev' = pre
    /\ UNCHANGED <<world, nextEnt, res, compHist, resHist, entSnaps, copySnaps,
                   entityMap, cmds, W, kinds, hostOps, sessFrame, issued, batch,
                   done, panicked, pushLog, lastReq, prevReq>>
    /\ ctx' = ctx \cup RequestContext(cur'.op)
    /\ UNCHANGED <<drv, inp, chk, stage>>

\* world.run_schedule(..): the next system of the running schedule runs.
RunSystem ==
    /\ ~panicked
    /\ cur # NoReq
    /\ sysq # <<>>
    /\ \E choice \in Choices(Head(sysq)) :
            Commit(RunOne(Head(sysq), Live, frame, W, choice))
    /\ sysq' = Tail(sysq)
    /\ ran' = Append(ran, Head(sysq))
    /\ UNCHANGED <<frame, W, kinds, hostOps, sessFrame, issued, batch, queue, cur,
                   done, pre, prePrev, lastReq, prevReq>>
    /\ UNCHANGED aux

\* The schedule run returns (its queued commands applied), the request's
\* context is removed and, after an Advance, the frame counter is stepped.
EndRequest ==
    /\ ~panicked
    /\ cur # NoReq
    /\ sysq = <<>>
    /\ \E nx \in (IF cur.op = "Advance" THEN FrameNext(frame)
                  ELSE {[panic |-> FALSE, frame |-> frame]}) :
            /\ Commit([Flush(Live) EXCEPT
                        !.panic = @ \/ nx.panic,
                        !.stage.frame = IF cur.op = "Advance" /\ ~nx.panic
                                        THEN StageFrameAfterAdvance(@, nx.frame) ELSE @])
            /\ frame' = nx.frame
    /\ cur' = NoReq
    /\ done' = Append(done, cur)
    /\ lastReq' = cur
    /\ prevReq' = lastReq
    /\ UNCHANGED <<W, kinds, hostOps, sessFrame, issued, batch, queue, sysq, ran,
                   pre, prePrev>>
    /\ ctx' = ctx \ RemovedContext(cur.op)
    /\ UNCHANGED <<drv, inp, chk>>

\* ---------------------------------------------------------- run_schedules
\* A new SystemState is built in every round: its EventReader starts from
\* the first event.
ReaderCursorFresh(read) == 0

\* The EventReader's SystemState is kept in RunStateSchedulesCache between
\* rounds: it resumes after the last event it has read.
ReaderCursor(read) == read

\* event_state.get_mut(world).into_iter().map(..).collect::<Vec<_>>(): the
\* events not yet read, copied out before the first schedule runs.
Collected(events, read) == SubSeq(events, ReaderCursor(read) + 1, Len(events))

\* A round of run_schedules begins: the unread request events are collected.
RoundStart ==
    /\ ~panicked
    /\ drv.pc = "rounds"
    /\ cur = NoReq /\ queue = <<>>
    /\ drv.round < MaxRounds
    /\ batch' = Collected(drv.events, drv.read)
    /\ queue' = Collected(drv.events, drv.read)
    /\ drv' = [drv EXCEPT !.read = Len(drv.events), !.round = drv.round + 1]
    /\ UNCHANGED <<world, nextEnt, res, frame, compHist, resHist, entSnaps,
                   copySnaps, entityMap, cmds, W, kinds, hostOps, sessFrame, issued,
                   cur, sysq, ran, done, panicked, missed, pushLog,
                   pre, prePrev, lastReq, prevReq, inp, chk, ctx, stage>>

\* A GGRSRequest event is published, between two rounds or by a system of
\* the schedule that is running: a Save of the current frame, an Advance, or
\* a Load of a saved frame.
Publish ==
    /\ ~panicked
    /\ drv.pc = "rounds"
    /\ cur = NoReq => queue = <<>>
    /\ Len(drv.events) < MaxEvents
    /\ \E req \in {SaveReq(frame), AdvanceReq}
                  \cup {LoadReq(resHist[i].frame) : i \in 1..Len(resHist)} :
        drv' = [drv EXCEPT !.events =
                    Append(@, [op |-> req.op, frame |-> req.frame,
                               id |-> Len(drv.events) + 1,
                               round |-> drv.round,
                               during |-> cur # NoReq])]
    /\ UNCHANGED <<world, nextEnt, res, frame, compHist, resHist, entSnaps,
                   copySnaps, entityMap, cmds, W, kinds, hostOps, sessFrame, issued,
                   batch, queue, cur, sysq, ran, done, panicked, missed, pushLog,
                   pre, prePrev, lastReq, prevReq, inp, chk, ctx, stage>>

\* No event published, no round run.
RoundsInit == drv = [pc |-> "rounds", events |-> <<>>, read |-> 0, round |-> 0]

\* ------------------------------------------------------- request sources
\* The requests of one resimulation from frame g up to (not including) c:
\* each resimulated frame is saved, then advanced.
RECURSIVE Resimulate(_, _)
Resimulate(g, c) ==
    IF g >= c THEN <<>> ELSE <<SaveReq(g), AdvanceReq>> \o Resimulate(g + 1, c)

\* The request list of one successful advance_frame call of a session at
\* frame c: without a rollback (f < 0) the frame is saved and advanced; with
\* a rollback to f the frame f is loaded and the frames up to c resimulated
\* first.
SessionRequests(c, f) ==
    (IF f < 0 THEN <<>> ELSE <<LoadReq(f), AdvanceReq>> \o Resimulate(f + 1, c))
    \o <<SaveReq(c), AdvanceReq>>

\* The engine can hand out the placeholders a Load(f) spawns.
CanLoad(f) ==
    "entity" \in kinds => nextEnt + Placeholders(entSnaps, f, world) <= MaxEnt + 1

\* One loop iteration of GGRSStage::run in which advance_frame succeeds: a
\* session that has saved every frame below its current one rolls back at
\* most W frames.
AdvanceFrame ==
    /\ ~panicked
    /\ cur = NoReq
    /\ queue = <<>>
    /\ sessFrame <= MaxFrame
    /\ \E f \in {-1} \cup (Max(0, sessFrame - W)..(sessFrame - 1)) :
            /\ f >= 0 => CanLoad(f)
            /\ batch' = SessionRequests(sessFrame, f)
            /\ queue' = SessionRequests(sessFrame, f)
    /\ sessFrame' = sessFrame + 1
    /\ done' = <<>>
    /\ UNCHANGED <<world, nextEnt, res, frame, compHist, resHist, entSnaps,
                   copySnaps, entityMap, cmds, W, kinds, hostOps, issued, cur,
                   sysq, ran, panicked, missed, pushLog, pre, prePrev, lastReq, prevReq>>
    /\ stage' = [stage EXCEPT !.snapshots = InitSnapshots(@, W)]
    /\ UNCHANGED aux

\* A request source bound by no protocol: any one request, a Save of the
\* current frame, a Load of any frame, an Advance.
AnyRequest ==
    /\ ~panicked
    /\ cur = NoReq
    /\ queue = <<>>
    /\ issued < MaxReq
    /\ \E req \in {SaveReq(frame)}
                  \cup {LoadReq(f) : f \in {g \in 0..MaxFrame : CanLoad(g)}}
                  \cup {r \in {AdvanceReq} : frame < MaxFrame} :
            /\ batch' = <<req>>
            /\ queue' = <<req>>
    /\ issued' = issued + 1
    /\ done' = <<>>
    /\ UNCHANGED <<world, nextEnt, res, frame, compHist, resHist, entSnaps,
                   copySnaps, entityMap, cmds, W, kinds, hostOps, sessFrame, cur,
                   sysq, ran, panicked, missed, pushLog, pre, prePrev, lastReq, prevReq>>
    /\ UNCHANGED aux
    /\ UNCHANGED stage


\* ------------------------------------------------------- session inputs
\* Player handles a caller may pass, and the input values.
Handles == 0..2

InputVals == {1, 2}

\* The handles a session accepts input for: 0..num_players of a SyncTest
\* session, the local player handles of a P2P session.
ValidHandles(ses) ==
    CASE ses.kind = "SyncTest" -> {h \in Handles : h < ses.numPlayers}
      [] ses.kind = "P2P" -> ses.local
      [] OTHER -> {}

\* add_local_input of the session library: the input is stored under the
\* handle; a handle that is not a valid local player handle, or a session
\* that is not running, gives an error and stores nothing.
AddLocalInput(ses, handle, input) ==
    IF handle \in ValidHandles(ses) /\ ses.running
    THEN [err |-> FALSE,
          ses |-> [ses EXCEPT !.inputs =
                      [h \in (DOMAIN ses.inputs) \cup {handle} |->
                          IF h = handle THEN input ELSE ses.inputs[h]]]]
    ELSE [err |-> TRUE, ses |-> ses]

\* Every variant forwards to add_local_input.
TrySetInputForward(ses, handle, input) == AddLocalInput(ses, handle, input)

\* Session::try_set_input: [err, ses].
TrySetInput(ses, handle, input) ==
    CASE ses.kind = "P2P" -> AddLocalInput(ses, handle, input)
      [] ses.kind = "Spectator" -> [err |-> FALSE, ses |-> ses]
      [] ses.kind = "SyncTest" -> AddLocalInput(ses, handle, input)

\* The host calls try_set_input with some handle and input.
HostSetInput ==
    /\ drv.pc = "session"
    /\ drv.calls < MaxCalls
    /\ \E handle \in Handles, input \in InputVals :
        LET out == TrySetInput(drv.ses, handle, input)
        IN drv' = [drv EXCEPT !.ses = out.ses,
                              !.calls = drv.calls + 1,
                              !.before = drv.ses,
                              !.call = <<handle, input, out.err>>]
    /\ UNCHANGED <<world, nextEnt, res, frame, compHist, resHist, entSnaps,
                   copySnaps, entityMap, cmds, W, kinds, hostOps, sessFrame, issued,
                   batch, queue, cur, sysq, ran, done, panicked, missed, pushLog,
                   pre, prePrev, lastReq, prevReq, inp, chk, ctx, stage>>

\* The sessions a host can build: a SyncTest session of one or two players
\* (always running), a P2P session with some local players, synchronizing
\* or running, a spectator.
Sessions ==
    {[kind |-> "SyncTest", numPlayers |-> n, local |-> {}, running |-> TRUE,
      inputs |-> <<>>] : n \in {1, 2}}
    \cup {[kind |-> "P2P", numPlayers |-> 2, local |-> l, running |-> r,
           inputs |-> <<>>] : l \in (SUBSET {0, 1}) \ {{}}, r \in BOOLEAN}
    \cup {[kind |-> "Spectator", numPlayers |-> 2, local |-> {}, running |-> r,
           inputs |-> <<>>] : r \in BOOLEAN}

\* A session of any variant, before the first call.
SessionInit ==
    \E ses \in Sessions :
        drv = [pc |-> "session", ses |-> ses, calls |-> 0, before |-> ses,
               call |-> <<>>]

\* The driver submits an input for every player of a P2P session.
SubmittedHandlesAll(ses) ==
    CASE ses.kind = "SyncTest" -> {h \in Handles : h < ses.numPlayers}
      [] ses.kind = "P2P" -> {h \in Handles : h < ses.numPlayers}
      [] OTHER -> {}

\* The handles a tick submits input for: run_synctest walks
\* 0..sess.num_players(), run_p2p the session's local_player_handles() when
\* current_state() is Running, run_spectator none.
SubmittedHandles(ses) ==
    CASE ses.kind = "SyncTest" -> {h \in Handles : h < ses.numPlayers}
      [] ses.kind = "P2P" -> IF ses.running THEN ses.local ELSE {}
      [] OTHER -> {}

\* sess.add_local_input(handle, input).expect(..) over the submitted
\* handles: some call returns an error and the driver panics.
ExpectFails(ses, handles) ==
    \E h \in handles : \A input \in InputVals : AddLocalInput(ses, h, input).err

\* ------------------------------------------------------------ the driver
\* GGRSStage::run: one invocation adds the elapsed time to the accumulator,
\* polls the session and runs a tick per period accumulated.  Durations are
\* counted in tenths of the normal tick period.
\* fps_delta = 1. / update_frequency, in these units.
Period == 10

\* fps_delta *= 1.1
SlowPeriod == (Period * 11) \div 10

\* The tick period of an invocation entered with run_slow.
FpsDelta(run_slow) == IF run_slow THEN SlowPeriod ELSE Period

\* while stage.accumulator.as_secs_f64() > fps_delta
LoopCond(acc, fps_delta) == acc > fps_delta

NoSession == "none"

SessionKinds == {"SyncTest", "P2P", "Spectator"}

\* An unsigned 32-bit value: its top bit and its low 31 bits.
U32(top, low) == [top |-> top, low |-> low]

\* What the network reports: P2PSession::frames_ahead() and
\* SpectatorSession::frames_behind_host().
AheadVals == {-1, 0, 1}

BehindVals == {U32(0, 0), U32(0, 1)}

\* `x as i32` on a u32: the same 32 bits read as two's complement.
AsI32(u) == IF u.top = 1 THEN (u.low - I32Max) - 1 ELSE u.low

\* `-x` on an i32: what the negation can give. At i32::MIN it overflows: a
\* build with overflow checks panics, a build without wraps to i32::MIN.
NegI32(x) ==
    IF x = I32Min
    THEN {[panic |-> TRUE, v |-> 0], [panic |-> FALSE, v |-> I32Min]}
    ELSE {[panic |-> FALSE, v |-> -x]}

\* Session::frames_ahead: the outcomes [panic, v] of one call.
FramesAhead(sess, ahead, behind) ==
    CASE sess = "SyncTest" -> {[panic |-> FALSE, v |-> 0]}
      [] sess = "P2P" -> {[panic |-> FALSE, v |-> ahead]}
      [] sess = "Spectator" -> NegI32(AsI32(behind))

\* What the sessions can report to a caller of frames_ahead: a signed
\* 32-bit count of a P2P session, an unsigned 32-bit count of a Spectator.
I32Samples == {I32Min, -1, 0, 1, I32Max}

U32Samples == {U32(t, l) : t \in {0, 1}, l \in {0, 1, 2, I32Max}}

\* A host asks a session of some kind for frames_ahead().
HostFramesAhead ==
    /\ drv.pc = "ahead"
    /\ drv.calls < MaxCalls
    /\ \E sess \in SessionKinds, ahead \in I32Samples, behind \in U32Samples :
        \E out \in FramesAhead(sess, ahead, behind) :
            drv' = [drv EXCEPT !.calls = drv.calls + 1, !.sess = sess,
                               !.ahead = ahead, !.behind = behind, !.out = <<out>>]
    /\ UNCHANGED <<world, nextEnt, res, frame, compHist, resHist, entSnaps,
                   copySnaps, entityMap, cmds, W, kinds, hostOps, sessFrame, issued,
                   batch, queue, cur, sysq, ran, done, panicked, missed, pushLog,
                   pre, prePrev, lastReq, prevReq, inp, chk, ctx, stage>>

AheadInit ==
    drv = [pc |-> "ahead", calls |-> 0, sess |-> NoSession, ahead |-> 0,
           behind |-> U32(0, 0), out |-> <<>>]

\* The session is polled only when a tick is about to fire.
PollsLate(sess, acc, fps_delta) ==
    IF sess # NoSession /\ LoopCond(acc, fps_delta) THEN 1 ELSE 0

\* if let Some(mut session) = world.get_resource_mut::<Session<T>>()
\* { session.poll(); }: the polls one invocation makes.
Polls(sess, acc, fps_delta) == IF sess # NoSession THEN 1 ELSE 0

\* Every session kind reports the configured prediction window.
MaxPredictionWindowConfigured(sess, max_prediction) == max_prediction

\* Session::max_prediction_window
MaxPredictionWindow(sess, max_prediction) ==
    IF sess = "Spectator" THEN 0 ELSE max_prediction

\* The results sess.advance_frame() can have in run_synctest, run_p2p and
\* run_spectator; "notrunning" when current_state() is not Running.
Outcomes(sess, running) ==
    CASE sess = "SyncTest" -> {"ok", "error"}
      [] ~running -> {"notrunning"}
      [] OTHER -> {"ok", "threshold", "error"}

\* A failed advance_frame call still yields an Advance request.
ErrRequestsAdvance(out) == <<AdvanceReq>>

\* Err(..) => info!/warn!, then vec![]: the requests of a tick in which
\* advance_frame failed or the session is not running.
ErrRequests(out) == <<>>

\* run_p2p sets run_slow from the session before advancing; run_synctest and
\* run_spectator leave it as it is.
RunSlowAfter(sess, run_slow, ahead) == IF sess = "P2P" THEN ahead > 0 ELSE run_slow

\* The live state and the histories, as a tick finds them.
Observed ==
    [frame |-> frame, world |-> world, res |-> res, compHist |-> compHist,
     resHist |-> resHist, entSnaps |-> entSnaps, copySnaps |-> copySnaps]

\* GGRSStage::run up to the poll: the elapsed time delta is accumulated.
RunEnter ==
    /\ ~panicked
    /\ drv.pc = "idle"
    /\ drv.runs < MaxRuns
    /\ \E delta \in 0..MaxDelta :
            drv' = [drv EXCEPT !.pc = "poll",
                               !.fpsDelta = FpsDelta(drv.runSlow),
                               !.acc = drv.acc + delta,
                               !.accIn = drv.acc + delta,
                               !.ticks = 0, !.polls = 0, !.reset = FALSE,
                               !.last = "none", !.runs = drv.runs + 1]
    /\ UNCHANGED <<world, nextEnt, res, frame, compHist, resHist, entSnaps,
                   copySnaps, entityMap, cmds, W, kinds, hostOps, sessFrame, issued,
                   batch, queue, cur, sysq, ran, done, panicked, missed, pushLog,
                   pre, prePrev, lastReq, prevReq, inp, chk, ctx, stage>>

\* The poll of the session, in which the network state may change.
Poll ==
    /\ ~panicked
    /\ drv.pc = "poll"
    /\ \E a \in (IF drv.sess = "P2P" THEN AheadVals ELSE {drv.ahead}),
          b \in (IF drv.sess = "Spectator" THEN BehindVals ELSE {drv.behind}) :
            drv' = [drv EXCEPT !.pc = "loop",
                               !.polls = drv.polls + Polls(drv.sess, drv.acc, drv.fpsDelta),
                               !.hadSess = drv.sess # NoSession,
                               !.ahead = a, !.behind = b]
    /\ UNCHANGED <<world, nextEnt, res, frame, compHist, resHist, entSnaps,
                   copySnaps, entityMap, cmds, W, kinds, hostOps, sessFrame, issued,
                   batch, queue, cur, sysq, ran, done, panicked, missed, pushLog,
                   pre, prePrev, lastReq, prevReq, inp, chk, ctx, stage>>

\* A loop iteration without a Session resource: stage.reset(); continue.
TickReset ==
    /\ ~panicked
    /\ drv.pc = "loop"
    /\ LoopCond(drv.acc, drv.fpsDelta)
    /\ drv.sess = NoSession
    /\ drv' = [drv EXCEPT !.acc = 0, !.runSlow = FALSE, !.reset = TRUE,
                           !.wasReset = TRUE]
    /\ stage' = [frame |-> 0, snapshots |-> <<>>, saved |-> <<>>, loaded |-> <<>>]
    /\ UNCHANGED <<world, nextEnt, res, frame, compHist, resHist, entSnaps,
                   copySnaps, entityMap, cmds, W, kinds, hostOps, sessFrame, issued,
                   batch, queue, cur, sysq, ran, done, panicked, missed, pushLog,
                   pre, prePrev, lastReq, prevReq, inp, chk, ctx>>

\* The requests a successful advance_frame call returns: a spectator only
\* advances, the other sessions save, advance and may roll back first.
OkRequests(sess, c, f) == IF sess = "Spectator" THEN <<AdvanceReq>> ELSE SessionRequests(c, f)

\* A loop iteration with a session: the period is taken from the
\* accumulator and run_synctest, run_p2p or run_spectator submits the local
\* inputs and asks the session for the requests of the tick.
Tick ==
    /\ ~panicked
    /\ drv.pc = "loop"
    /\ LoopCond(drv.acc, drv.fpsDelta)
    /\ drv.sess # NoSession
    /\ cur = NoReq /\ queue = <<>>
    /\ \E ses \in {x \in Sessions : x.kind = drv.sess} :
       \E out \in IF ExpectFails(ses, SubmittedHandles(ses)) THEN {"panic"}
                   ELSE Outcomes(drv.sess, ses.running) :
       \E f \in {-1} \cup (IF drv.sess = "Spectator" THEN {}
                           ELSE Max(0, sessFrame - W)..(sessFrame - 1)) :
            /\ out = "ok" => sessFrame <= MaxFrame /\ frame <= MaxFrame
            /\ out # "ok" => f = -1
            /\ LET reqs == IF out = "ok" THEN OkRequests(drv.sess, sessFrame, f)
                           ELSE ErrRequests(out)
               IN /\ batch' = reqs
                  /\ queue' = reqs
            /\ sessFrame' = IF out = "ok" THEN sessFrame + 1 ELSE sessFrame
            /\ panicked' = (out = "panic")
            /\ drv' = [drv EXCEPT !.pc = "exec",
                                  !.acc = drv.acc - drv.fpsDelta,
                                  !.runSlow = RunSlowAfter(drv.sess, drv.runSlow, drv.ahead),
                                  !.ticks = drv.ticks + 1,
                                  !.last = out,
                                  !.fed = SubmittedHandles(ses),
                                  !.erred = drv.erred \/ out \in {"threshold", "error"},
                                  !.tickPre = Observed]
    /\ stage' = IF drv.sess = "Spectator" THEN stage
                 ELSE [stage EXCEPT !.snapshots = InitSnapshots(@, W)]
    /\ done' = <<>>
    /\ UNCHANGED <<world, nextEnt, res, frame, compHist, resHist, entSnaps,
                   copySnaps, entityMap, cmds, W, kinds, hostOps, issued, cur,
                   sysq, ran, missed, pushLog, pre, prePrev, lastReq,
                   prevReq, inp, chk, ctx>>

\* The requests of the tick are executed: the loop condition is next.
TickDone ==
    /\ ~panicked
    /\ drv.pc = "exec"
    /\ cur = NoReq /\ queue = <<>>
    /\ drv' = [drv EXCEPT !.pc = "loop", !.fed = {}]
    /\ UNCHANGED <<world, nextEnt, res, frame, compHist, resHist, entSnaps,
                   copySnaps, entityMap, cmds, W, kinds, hostOps, sessFrame, issued,
                   batch, queue, cur, sysq, ran, done, panicked, missed, pushLog,
                   pre, prePrev, lastReq, prevReq, inp, chk, ctx, stage>>

\* The accumulator holds no further tick: GGRSStage::run returns.
RunExit ==
    /\ ~panicked
    /\ drv.pc = "loop"
    /\ ~LoopCond(drv.acc, drv.fpsDelta)
    /\ drv' = [drv EXCEPT !.pc = "idle"]
    /\ UNCHANGED <<world, nextEnt, res, frame, compHist, resHist, entSnaps,
                   copySnaps, entityMap, cmds, W, kinds, hostOps, sessFrame, issued,
                   batch, queue, cur, sysq, ran, done, panicked, missed, pushLog,
                   pre, prePrev, lastReq, prevReq, inp, chk, ctx, stage>>

\* Between two invocations the host inserts, replaces or removes the
\* Session resource; a new session starts at frame 0.
HostSession ==
    /\ ~panicked
    /\ drv.pc = "idle"
    /\ drv.swaps < MaxSwaps
    /\ \E k \in (SessionKinds \cup {NoSession}) \ {drv.sess} :
            drv' = [drv EXCEPT !.sess = k, !.ahead = 0, !.behind = U32(0, 0),
                               !.hadSess = FALSE,
                               !.swaps = drv.swaps + 1]
    /\ sessFrame' = 0
    /\ UNCHANGED <<world, nextEnt, res, frame, compHist, resHist, entSnaps,
                   copySnaps, entityMap, cmds, W, kinds, hostOps, issued,
                   batch, queue, cur, sysq, ran, done, panicked, missed, pushLog,
                   pre, prePrev, lastReq, prevReq, inp, chk, ctx, stage>>

\* GGRSStage::new, with the host's Session resource.
DriverInit(sessions) ==
    \E k \in sessions :
        drv = [pc |-> "idle", acc |-> 0, accIn |-> 0, fpsDelta |-> Period,
               runSlow |-> FALSE, sess |-> k, ahead |-> 0, behind |-> U32(0, 0),
               polls |-> 0, ticks |-> 0, reset |-> FALSE, last |-> "none",
               tickPre |-> Observed, runs |-> 0, swaps |-> 0, erred |-> FALSE,
               hadSess |-> FALSE, fed |-> {}, wasReset |-> FALSE]


\* ------------------------------------------------ the accumulator loop
\* The loop of GGRSStage::run for any update frequency, with Durations in
\* whole nanoseconds (their resolution) and fps_delta to half a nanosecond.
NanosPerSec == 1000000000

\* Update frequencies a host can set with set_update_frequency, and the
\* time (in nanoseconds) that can pass between two invocations.
UpdateFrequencies == {60, 1000, I32Max}

Deltas == {0, 1, 3, 20000000}

\* fps_delta = 1. / update_frequency as f64, times 1.1 under run_slow, in
\* half nanoseconds, rounded down.
FpsDeltaHalfNanos(update_frequency, run_slow) ==
    LET half == 2 * (NanosPerSec \div update_frequency)
                + (2 * (NanosPerSec % update_frequency)) \div update_frequency
    IN IF run_slow THEN (half * 11) \div 10 ELSE half

\* stage.accumulator.as_secs_f64() > fps_delta, the accumulator in
\* nanoseconds.
LoopCondNanos(acc, fps_half) == 2 * acc > fps_half

\* Duration::from_secs_f64(fps_delta) in nanoseconds: the conversion drops
\* the fraction of a nanosecond or rounds to the nearest, by the version of
\* the standard library.
DurationFromSecsF64(fps_half) == {fps_half \div 2, (fps_half + 1) \div 2}

\* One iteration's effect on the accumulator: saturating_sub of the period,
\* and reset() when there is no Session.
AccumulatorAfter(acc, period, has_session) ==
    IF has_session THEN Max(acc - period, 0) ELSE 0

\* GGRSStage::run up to the loop.
LoopEnter ==
    /\ drv.pc = "returned"
    /\ drv.runs < MaxRuns
    /\ \E delta \in Deltas :
            drv' = [drv EXCEPT !.pc = "while",
                               !.fps = FpsDeltaHalfNanos(drv.freq, drv.runSlow),
                               !.acc = drv.acc + delta,
                               !.iters = 0,
                               !.runs = drv.runs + 1]
    /\ UNCHANGED <<world, nextEnt, res, frame, compHist, resHist, entSnaps,
                   copySnaps, entityMap, cmds, W, kinds, hostOps, sessFrame, issued,
                   batch, queue, cur, sysq, ran, done, panicked, missed, pushLog,
                   pre, prePrev, lastReq, prevReq, inp, chk, ctx, stage>>

\* One iteration of the loop, whatever the session answers; iters counts
\* the iterations modulo MaxSteps + 1.
LoopIterate ==
    /\ drv.pc = "while"
    /\ LoopCondNanos(drv.acc, drv.fps)
    /\ \E period \in DurationFromSecsF64(drv.fps) :
            drv' = [drv EXCEPT !.acc = AccumulatorAfter(drv.acc, period, drv.hasSession),
                               !.runSlow = drv.hasSession /\ @,
                               !.iters = (@ + 1) % (MaxSteps + 1)]
    /\ UNCHANGED <<world, nextEnt, res, frame, compHist, resHist, entSnaps,
                   copySnaps, entityMap, cmds, W, kinds, hostOps, sessFrame, issued,
                   batch, queue, cur, sysq, ran, done, panicked, missed, pushLog,
                   pre, prePrev, lastReq, prevReq, inp, chk, ctx, stage>>

\* The loop condition is false: GGRSStage::run returns.
LoopReturn ==
    /\ drv.pc = "while"
    /\ ~LoopCondNanos(drv.acc, drv.fps)
    /\ drv' = [drv EXCEPT !.pc = "returned"]
    /\ UNCHANGED <<world, nextEnt, res, frame, compHist, resHist, entSnaps,
                   copySnaps, entityMap, cmds, W, kinds, hostOps, sessFrame, issued,
                   batch, queue, cur, sysq, ran, done, panicked, missed, pushLog,
                   pre, prePrev, lastReq, prevReq, inp, chk, ctx, stage>>

\* GGRSStage::new followed by set_update_frequency, with or without a
\* Session resource.
LoopInit ==
    \E freq \in UpdateFrequencies, has_session \in BOOLEAN, run_slow \in BOOLEAN :
        drv = [pc |-> "returned", freq |-> freq, hasSession |-> has_session,
               runSlow |-> run_slow, fps |-> 0, acc |-> 0, iters |-> 0,
               runs |-> 0]

\* ------------------------------------------------------- input encodings
\* keycodes: [u8; 21], mousebuttons: [u8; 3], gamepadbuttons: [u8; 32]
KeyBanks == 21

MouseBanks == 3

PadBanks == 32

MAX_GAMEPADS == 4

MAX_BUTTONS == 64

\* bank & mask != 0 with mask = 1 << channel
BitOf(byte, channel) == (byte \div (2 ^ channel)) % 2

\* *bank = mask
SetBitAssign(byte, channel) == 2 ^ channel

\* *bank |= mask
SetBit(byte, channel) == IF BitOf(byte, channel) = 1 THEN byte ELSE byte + 2 ^ channel

\* *bank &= !mask
ClearBit(byte, channel) == IF BitOf(byte, channel) = 1 THEN byte - 2 ^ channel ELSE byte

\* KeyCodeInput::map, on the discriminant of the KeyCode.
KeyCodeMap(keycode_value) ==
    LET channel == keycode_value % 8
        bank == (keycode_value - channel) \div 8
    IN [bank |-> bank, channel |-> channel]

\* MouseButtonInput::map
MouseButtonMap(mouse_button) ==
    LET mouse_button_value ==
            CASE mouse_button.t = "Left" -> 0
              [] mouse_button.t = "Right" -> 1
              [] mouse_button.t = "Middle" -> 2
              [] mouse_button.t = "Other" -> 3 + mouse_button.n
    IN [bank |-> mouse_button_value \div 8, channel |-> mouse_button_value % 8]

\* The named GamepadButtonType variants, in the order of the match.
GamepadButtonTypes ==
    <<"South", "East", "North", "West", "C", "Z", "LeftTrigger", "LeftTrigger2",
      "RightTrigger", "RightTrigger2", "Select", "Start", "Mode", "LeftThumb",
      "RightThumb", "DPadUp", "DPadDown", "DPadLeft", "DPadRight">>

\* match gamepad_button.button_type { South => 0, .., Other(other) => 19 + other }
GamepadButtonValue(b) ==
    IF b.t = "Other" THEN Len(GamepadButtonTypes) + b.n
    ELSE (CHOOSE i \in 1..Len(GamepadButtonTypes) : GamepadButtonTypes[i] = b.t) - 1

\* GamepadButtonInput::map; the two debug_assert! are compiled in when the
\* build has debug assertions (checks).
GamepadButtonMap(b, checks) ==
    LET gamepad == b.gamepad
        gamepad_button_value == GamepadButtonValue(b) + MAX_BUTTONS * gamepad
    IN [panic |-> checks /\ (gamepad >= MAX_GAMEPADS \/ GamepadButtonValue(b) >= MAX_BUTTONS),
        bank |-> gamepad_button_value \div 8,
        channel |-> gamepad_button_value % 8]

ButtonDoms == {"key", "mouse", "pad"}

\* Self::map(button), per button domain: [panic, bank, channel].
ButtonMap(dom, b, checks) ==
    CASE dom = "key" -> [panic |-> FALSE] @@ KeyCodeMap(b)
      [] dom = "mouse" -> [panic |-> FALSE] @@ MouseButtonMap(b)
      [] dom = "pad" -> GamepadButtonMap(b, checks)

\* The length of the byte array of a button domain.
Banks(dom) ==
    CASE dom = "key" -> KeyBanks
      [] dom = "mouse" -> MouseBanks
      [] dom = "pad" -> PadBanks

\* get(&self, button): [panic, value]; the array lookup fails outside the
\* banks ("... is unable to operate on").
ButtonGet(dom, bytes, b, checks) ==
    LET m == ButtonMap(dom, b, checks) IN
    IF m.panic \/ m.bank >= Len(bytes)
    THEN [panic |-> TRUE, value |-> FALSE]
    ELSE [panic |-> FALSE, value |-> BitOf(bytes[m.bank + 1], m.channel) # 0]

\* set with the bank taken modulo the length of the array, without a failing
\* lookup.
ButtonSetWrapped(dom, bytes, b, value, checks) ==
    LET m == ButtonMap(dom, b, checks)
        bank == m.bank % Len(bytes)
    IN [panic |-> FALSE,
        bytes |-> [bytes EXCEPT ![bank + 1] =
                        IF value THEN SetBit(@, m.channel) ELSE ClearBit(@, m.channel)]]

\* set(&mut self, button, value): [panic, bytes].
ButtonSet(dom, bytes, b, value, checks) ==
    LET m == ButtonMap(dom, b, checks) IN
    IF m.panic \/ m.bank >= Len(bytes)
    THEN [panic |-> TRUE, bytes |-> bytes]
    ELSE [panic |-> FALSE,
          bytes |-> [bytes EXCEPT ![m.bank + 1] =
                        IF value THEN SetBit(@, m.channel) ELSE ClearBit(@, m.channel)]]

\* The all-zero encoding of n bytes (Zeroable::zeroed, derive(Default) of a
\* byte array).
Zeroed(n) == [i \in 1..n |-> 0]

\* f32 values by the fields of their bit pattern: sign (1 bit), exponent
\* (8 bits), fraction (23 bits).
F32(sign, exp, frac) == [sign |-> sign, exp |-> exp, frac |-> frac]

\* f32::NAN, the quiet NaN 0x7FC00000.
F32NaN == F32(0, 255, 4194304)

\* 0.0, 0.5, 1.0, -0.0, -1.0 and the smallest subnormal.
F32Finite ==
    {F32(0, 0, 0), F32(0, 126, 0), F32(0, 127, 0), F32(1, 0, 0), F32(1, 127, 0), F32(0, 0, 1)}

\* +infinity, f32::NAN and a NaN with a payload.
F32NonFinite == {F32(0, 255, 0), F32NaN, F32(1, 255, 4194305)}

\* f32::to_le_bytes
ToLeBytes(f) ==
    <<f.frac % 256, (f.frac \div 256) % 256,
      (f.exp % 2) * 128 + f.frac \div 65536, f.sign * 128 + f.exp \div 2>>

\* f32::to_be_bytes
ToBeBytes(f) ==
    <<f.sign * 128 + f.exp \div 2, (f.exp % 2) * 128 + f.frac \div 65536,
      (f.frac \div 256) % 256, f.frac % 256>>

\* f32::from_be_bytes
FromBeBytes(b) ==
    F32(b[1] \div 128, (b[1] % 128) * 2 + b[2] \div 128,
        (b[2] % 128) * 65536 + b[3] * 256 + b[4])

\* f32::is_finite: the exponent is not all ones.
IsFinite(f) == f.exp # 255

\* MousePositionInput::get: None, or the pair <<x, y>>.
PositionGet(bytes) ==
    LET x == FromBeBytes(SubSeq(bytes, 1, 4))
        y == FromBeBytes(SubSeq(bytes, 5, 8))
    IN IF ~IsFinite(y) \/ ~IsFinite(x) THEN None ELSE <<x, y>>

\* MousePositionInput::set
PositionSet(position) ==
    LET v == IF position = None THEN <<F32NaN, F32NaN>> ELSE position
    IN ToBeBytes(v[1]) \o ToBeBytes(v[2])

\* The default is the derived one: all bytes zero.
PositionDefaultZeroed(z) == Zeroed(8)

\* impl Default for MousePositionInput: x and y default, then set(None).
PositionDefault(z) == PositionSet(None)

\* The default value of each input type; KeyboardAndMouseInput derives it
\* field by field (mouse_position, mouse_buttons, keyboard_buttons).
DefaultInput(dom) ==
    CASE dom \in ButtonDoms -> Zeroed(Banks(dom))
      [] dom = "pos" -> PositionDefault(0)
      [] dom = "kbm" -> PositionDefault(0) \o Zeroed(MouseBanks) \o Zeroed(KeyBanks)

\* The buttons the set calls are drawn from: KeyCode discriminants up to the
\* first outside the 21 banks; mouse buttons up to the first outside the
\* three banks; gamepad buttons of the gamepads 0, 1, 3 and, outside the four
\* supported, 4, and the first button value outside the 32 banks.
Buttons(dom) ==
    CASE dom = "key" -> {0, 7, 8, 9, 160, 168}
      [] dom = "mouse" ->
            {[t |-> "Left", n |-> 0], [t |-> "Right", n |-> 0], [t |-> "Middle", n |-> 0],
             [t |-> "Other", n |-> 4], [t |-> "Other", n |-> 5],
             [t |-> "Other", n |-> 20], [t |-> "Other", n |-> 21]}
      [] dom = "pad" ->
            {[gamepad |-> g, t |-> t, n |-> 0] :
                g \in {0, 1, 3}, t \in {"South", "LeftTrigger2", "RightTrigger", "DPadRight"}}
            \cup {[gamepad |-> g, t |-> "Other", n |-> n] : g \in {0, 1}, n \in {0, 44, 45}}
            \cup {[gamepad |-> 4, t |-> "South", n |-> 0],
                  [gamepad |-> 3, t |-> "Other", n |-> 45]}
      [] OTHER -> {}

\* A set call on a button encoding.
InputSet ==
    /\ inp.dom \in ButtonDoms
    /\ ~inp.panic
    /\ inp.n < MaxSets
    /\ \E b \in Buttons(inp.dom), value \in BOOLEAN :
        LET out == ButtonSet(inp.dom, inp.bytes, b, value, inp.checks)
            m == ButtonMap(inp.dom, b, inp.checks)
        IN inp' = [inp EXCEPT !.bytes = out.bytes,
                              !.panic = out.panic,
                              !.n = inp.n + 1,
                              !.last = <<b, value>>,
                              !.pressed = IF out.panic THEN inp.pressed
                                          ELSE IF value THEN inp.pressed \cup {b}
                                          ELSE inp.pressed \ {b},
                              !.maps = IF out.panic THEN inp.maps
                                       ELSE inp.maps \cup {[b |-> b, bank |-> m.bank,
                                                            channel |-> m.channel]}]
    /\ UNCHANGED <<world, nextEnt, res, frame, compHist, resHist, entSnaps,
                   copySnaps, entityMap, cmds, W, kinds, hostOps, sessFrame, issued,
                   batch, queue, cur, sysq, ran, done, panicked, missed, pushLog,
                   pre, prePrev, lastReq, prevReq, drv, chk, ctx, stage>>

\* A set call on a mouse position: no cursor, or a position.
InputSetPosition ==
    /\ inp.dom = "pos"
    /\ inp.n < MaxSets
    /\ \E position \in {None} \cup ((F32Finite \cup F32NonFinite) \X (F32Finite \cup F32NonFinite)) :
        inp' = [inp EXCEPT !.bytes = PositionSet(position),
                           !.n = inp.n + 1,
                           !.last = position]
    /\ UNCHANGED <<world, nextEnt, res, frame, compHist, resHist, entSnaps,
                   copySnaps, entityMap, cmds, W, kinds, hostOps, sessFrame, issued,
                   batch, queue, cur, sysq, ran, done, panicked, missed, pushLog,
                   pre, prePrev, lastReq, prevReq, drv, chk, ctx, stage>>

\* An input of one of the types, at its default value, in a build with or
\* without debug assertions.
InputInit ==
    \E dom \in ButtonDoms \cup {"pos", "kbm"}, checks \in BOOLEAN :
        inp = [dom |-> dom, bytes |-> DefaultInput(dom), checks |-> checks,
               panic |-> FALSE, n |-> 0, last |-> None, pressed |-> {}, maps |-> {}]


\* ------------------------------------------------------------ checksums
\* The peers whose checksum parts are compared, each its own process.
Peers == {1, 2}

\* Entity ids a peer's world allocates from, and the values of the hashed
\* resource.
PeerEntities == {1, 2}

ResourceVals == {1, 2}

\* A hasher with keys drawn per process (std RandomState).
RandomState(process) == process

\* bevy::utils::FixedState.build_hasher(): the same keys in every process.
FixedState(process) == 0

\* DefaultHasher::new(): the same keys in every process.
DefaultHasherNew(process) == 0

\* value.hash(&mut hasher): the hasher state absorbs the value.
HashWrite(hasher, value) == (hasher * 31 + value + 7) % 65521

\* hasher.finish()
HashFinish(hasher) == (hasher * 31 + 11) % 65521

\* Only the count of active rollback entities is hashed.
EntityChecksumInputActive(active, ordered) == <<Cardinality(active), 0>>

\* What EntityChecksumPlugin::update feeds the hasher:
\* active_entities.iter().len(), then rollback_ordered.len().
EntityChecksumInput(active, ordered) == <<Cardinality(active), ordered>>

\* EntityChecksumPlugin::update: the part computed from the count of active
\* rollback entities and the length of RollbackOrdered.
EntityChecksum(process, active, ordered) ==
    LET hashed == EntityChecksumInput(active, ordered)
        h0 == FixedState(process)
        h1 == HashWrite(h0, hashed[1])
        h2 == HashWrite(h1, hashed[2])
    IN HashFinish(h2)

\* GgrsResourceChecksumHashPlugin::update: the part computed from the resource.
ResourceChecksum(process, resource) ==
    HashFinish(HashWrite(DefaultHasherNew(process), resource))

\* Every Save spawns a holder of its own.
StorePartSpawn(parts, result) == Append(parts, result)

\* if let Ok(mut checksum) = checksum.get_single_mut() { *checksum = result }
\* else { commands.spawn((result, flag)) }, with the spawn applied; parts is
\* the sequence of the part values of the entities carrying the flag.
StorePart(parts, result) ==
    IF Len(parts) = 1 THEN <<result>> ELSE Append(parts, result)

\* A peer simulates one frame: its game spawns or despawns a rollback
\* entity, changes the resource, or changes nothing hashed.
ChkAdvance ==
    /\ \E p \in Peers :
        /\ chk[p].frame < MaxSteps
        /\ \E c \in [active : SUBSET PeerEntities, ordered : 0..MaxSteps, resource : ResourceVals] :
            /\ \/ c = [active |-> chk[p].active, ordered |-> chk[p].ordered,
                       resource |-> chk[p].resource]
               \/ \E e \in PeerEntities \ chk[p].active :
                    c = [active |-> chk[p].active \cup {e}, ordered |-> chk[p].ordered + 1,
                         resource |-> chk[p].resource]
               \/ \E e \in chk[p].active :
                    c = [active |-> chk[p].active \ {e}, ordered |-> chk[p].ordered,
                         resource |-> chk[p].resource]
               \/ /\ c.resource # chk[p].resource
                  /\ c.active = chk[p].active /\ c.ordered = chk[p].ordered
            /\ chk' = [chk EXCEPT ![p] = [@ EXCEPT !.frame = @ + 1,
                                                   !.touched = @ \/ c.active # chk[p].active,
                                                   !.active = c.active,
                                                   !.ordered = c.ordered,
                                                   !.resource = c.resource]]
    /\ UNCHANGED <<world, nextEnt, res, frame, compHist, resHist, entSnaps,
                   copySnaps, entityMap, cmds, W, kinds, hostOps, sessFrame, issued,
                   batch, queue, cur, sysq, ran, done, panicked, missed, pushLog,
                   pre, prePrev, lastReq, prevReq, drv, inp, ctx, stage>>

\* A peer executes a Save: both checksum systems run and their commands are
\* applied. saved holds what the last Save hashed, prev the Save before it
\* (each empty until there is one); touched tells whether a rollback entity
\* was spawned or despawned since the last Save.
ChkSave ==
    /\ \E p \in Peers :
        /\ chk[p].saves <= chk[p].frame
        /\ chk' = [chk EXCEPT ![p] =
                [@ EXCEPT !.entParts = StorePart(@, EntityChecksum(p, chk[p].active, chk[p].ordered)),
                          !.resParts = StorePart(@, ResourceChecksum(p, chk[p].resource)),
                          !.saves = @ + 1,
                          !.touched = FALSE,
                          !.saved = <<[frame |-> chk[p].frame,
                                       touched |-> chk[p].touched,
                                       ent |-> EntityChecksumInput(chk[p].active, chk[p].ordered),
                                       res |-> chk[p].resource,
                                       entParts |-> StorePart(chk[p].entParts,
                                            EntityChecksum(p, chk[p].active, chk[p].ordered)),
                                       resParts |-> StorePart(chk[p].resParts,
                                            ResourceChecksum(p, chk[p].resource))]>>,
                          !.prev = chk[p].saved]]
    /\ UNCHANGED <<world, nextEnt, res, frame, compHist, resHist, entSnaps,
                   copySnaps, entityMap, cmds, W, kinds, hostOps, sessFrame, issued,
                   batch, queue, cur, sysq, ran, done, panicked, missed, pushLog,
                   pre, prePrev, lastReq, prevReq, drv, inp, ctx, stage>>

\* Two peers at frame 0 of the same game, nothing saved yet.
ChkInit ==
    chk = [p \in Peers |->
              [frame |-> 0, active |-> {}, ordered |-> 0, resource |-> 1,
               entParts |-> <<>>, resParts |-> <<>>, saves |-> 0, touched |-> FALSE,
               saved |-> <<>>, prev |-> <<>>]]

\* A request source late in a long session: a Save of the current frame, an
\* Advance, or a Load of a frame the resource history holds.
LongRunRequest ==
    /\ ~panicked
    /\ cur = NoReq
    /\ queue = <<>>
    /\ issued < MaxReq
    /\ \E req \in {SaveReq(frame), AdvanceReq}
                  \cup {LoadReq(resHist[i].frame) : i \in 1..Len(resHist)} :
            /\ batch' = <<req>>
            /\ queue' = <<req>>
    /\ issued' = issued + 1
    /\ done' = <<>>
    /\ UNCHANGED <<world, nextEnt, res, frame, compHist, resHist, entSnaps,
                   copySnaps, entityMap, cmds, W, kinds, hostOps, sessFrame, cur,
                   sysq, ran, panicked, missed, pushLog, pre, prePrev, lastReq, prevReq>>
    /\ UNCHANGED aux
    /\ UNCHANGED stage

\* --------------------------------------------------------- specifications
\* The parts of the state a specification leaves out.
NoDriver == [pc |-> "off"]

NoInput == [dom |-> "off"]

NoPeers == <<>>

\* The driver timing, the input encodings and the checksums are left out.
NoAux == drv = NoDriver /\ inp = NoInput /\ chk = NoPeers

\* The state after construction: empty histories, frame 0, no request; the
\* host has registered the kinds ks, set up the world wld with the resource
\* r, and inserted a session with window w.
InitAt(f0, ks, ops, ws, worlds, ress) ==
    /\ world \in worlds
    /\ nextEnt = Cardinality(DOMAIN world) + 1
    /\ res \in ress
    /\ frame = f0
    /\ compHist = <<>>
    /\ resHist = <<>>
    /\ entSnaps = <<>>
    /\ copySnaps = <<>>
    /\ entityMap = {}
    /\ cmds = <<>>
    /\ W \in ws
    /\ kinds \in ks
    /\ hostOps = ops
    /\ sessFrame = 0
    /\ issued = 0
    /\ batch = <<>>
    /\ queue = <<>>
    /\ cur = NoReq
    /\ sysq = <<>>
    /\ ran = <<>>
    /\ done = <<>>
    /\ panicked = FALSE
    /\ missed = {}
    /\ pushLog = [comp |-> <<>>, res |-> <<>>, entity |-> <<>>, copy |-> <<>>]
    /\ pre = [world |-> world, res |-> res]
    /\ prePrev = [world |-> world, res |-> res]
    /\ lastReq = NoReq
    /\ prevReq = NoReq
    /\ ctx = {}
    /\ stage = [frame |-> f0, snapshots |-> <<>>, saved |-> <<>>, loaded |-> <<>>]

\* The state after construction, at frame 0.
InitWith(ks, ops, ws, worlds, ress) == InitAt(0, ks, ops, ws, worlds, ress)

\* A world of one object outside rollback and one rollback object carrying C.
DataWorld == (1 :> [rb |-> NoRid, c |-> "b"]) @@ (2 :> [rb |-> 1, c |-> "a"])

\* A world of three rollback objects, with the RollbackIds 2, 3 and 4.
ThreeWorld == [e \in {1, 2, 3} |-> [rb |-> e + 1, c |-> None]]

\* A world without objects.
EmptyWorld == [e \in {} |-> [rb |-> NoRid, c |-> None]]

\* Component and resource kinds under a free-running request source.
Init == InitWith({{"comp", "res"}, {"copy"}, {"res"}}, {"comp", "res"}, 1..MaxW, {DataWorld}, {"a"}) /\ NoAux

Next == AnyRequest \/ StartRequest \/ RunSystem \/ EndRequest

Spec == Init /\ [][Next]_vars

\* Component and resource histories under a session that keeps the protocol.
InitP2P == InitWith({{"comp", "res"}}, {"res"}, 1..MaxW, {DataWorld}, {"a"}) /\ NoAux

NextP2P == AdvanceFrame \/ StartRequest \/ RunSystem \/ EndRequest

SpecP2P == InitP2P /\ [][NextP2P]_vars

\* The histories under a session that keeps the protocol while the game
\* changes both the component and the resource.
InitHist == InitWith({{"comp", "res"}}, {"comp", "res"}, {MaxW}, {DataWorld}, {"a"}) /\ NoAux

SpecHist == InitHist /\ [][NextP2P]_vars

\* The entity snapshot together with a component history, under a session
\* that keeps the protocol while the game spawns and despawns objects.
InitRecreate == InitWith({{"entity", "comp"}}, {"ents"}, {MaxW}, {DataWorld}, {"a"}) /\ NoAux

SpecRecreate == InitRecreate /\ [][NextP2P]_vars

\* The histories with the window a Spectator session reports, under any
\* request stream.
InitSpectator ==
    InitWith({{"comp", "res"}, {"copy"}, {"res"}}, {"comp", "res"},
             {MaxPredictionWindow("Spectator", MaxW)}, {DataWorld}, {"a"}) /\ NoAux

SpecSpectator == InitSpectator /\ [][Next]_vars

\* The stage's own world snapshots under a session that keeps the protocol.
InitWorld == InitWith({{"world"}}, {"comp", "res"}, 1..MaxW, {DataWorld}, {"a"}) /\ NoAux

NextWorld == AdvanceFrame \/ StartRequest \/ RunSystem \/ EndRequest

SpecWorld == InitWorld /\ [][NextWorld]_vars

\* The entity snapshot and a copied resource while the game spawns and
\* despawns rollback objects.
InitEnt == InitWith({{"entity", "copy"}}, {"ents"}, 1..MaxW, {EmptyWorld, ThreeWorld}, {"a"}) /\ NoAux

SpecEnt == InitEnt /\ [][Next]_vars

\* The driver with a resource history registered and a game that changes
\* nothing, under sessions of every kind.
InitDrv ==
    /\ InitWith({{"res"}}, {}, {MaxW - 1}, {DataWorld}, {"a"})
    /\ DriverInit(SessionKinds \cup {NoSession})
    /\ inp = NoInput
    /\ chk = NoPeers

NextDrv ==
    \/ RunEnter \/ Poll \/ TickReset \/ Tick \/ TickDone \/ RunExit \/ HostSession
    \/ StartRequest \/ RunSystem \/ EndRequest

SpecDrv == InitDrv /\ [][NextDrv]_vars

\* The driver after a Spectator session that advanced one or two frames was
\* removed: the Frame resource is where that session left it, nothing was
\* saved, and the host is about to run the driver without a session.
InitReset ==
    /\ \E f0 \in 1..2 : InitAt(f0, {{"res"}}, {}, {MaxW - 1}, {DataWorld}, {"a"})
    /\ DriverInit({NoSession})
    /\ inp = NoInput
    /\ chk = NoPeers

SpecReset == InitReset /\ [][NextDrv]_vars

\* The request executor when the frame counter is about to reach i32::MAX.
InitWrap == InitAt(I32Max - 1, {{"res"}}, {"res"}, 1..MaxW, {DataWorld}, {"a"}) /\ NoAux

NextWrap == LongRunRequest \/ StartRequest \/ RunSystem \/ EndRequest

SpecWrap == InitWrap /\ [][NextWrap]_vars

\* The input encodings under set calls; no request is executed.
InitInput ==
    /\ InitWith({{"res"}}, {}, {1}, {EmptyWorld}, {None})
    /\ drv = NoDriver
    /\ InputInit
    /\ chk = NoPeers

NextInput == InputSet \/ InputSetPosition

SpecInput == InitInput /\ [][NextInput]_vars

\* Two peers saving checksum parts; no request is executed.
InitChk ==
    /\ InitWith({{"res"}}, {}, {1}, {EmptyWorld}, {None})
    /\ drv = NoDriver
    /\ inp = NoInput
    /\ ChkInit

NextChk == ChkAdvance \/ ChkSave

SpecChk == InitChk /\ [][NextChk]_vars

\* A session under try_set_input calls; no request is executed.
InitSession ==
    /\ InitWith({{"res"}}, {}, {1}, {EmptyWorld}, {None})
    /\ SessionInit
    /\ inp = NoInput
    /\ chk = NoPeers

NextSession == HostSetInput

SpecSession == InitSession /\ [][NextSession]_vars

\* A session of any kind asked for frames_ahead; no request is executed.
InitAhead ==
    /\ InitWith({{"res"}}, {}, {1}, {EmptyWorld}, {None})
    /\ AheadInit
    /\ inp = NoInput
    /\ chk = NoPeers

NextAhead == HostFramesAhead

SpecAhead == InitAhead /\ [][NextAhead]_vars

\* The accumulator loop alone; every iteration that can run does run.
InitLoop ==
    /\ InitWith({{"res"}}, {}, {1}, {EmptyWorld}, {None})
    /\ LoopInit
    /\ inp = NoInput
    /\ chk = NoPeers

NextLoop == LoopEnter \/ LoopIterate \/ LoopReturn

SpecLoop ==
    InitLoop /\ [][NextLoop]_vars /\ WF_vars(LoopIterate) /\ WF_vars(LoopReturn)

\* run_schedules fed by request events; done keeps every executed request.
InitRounds ==
    /\ InitWith({{"res"}}, {"res"}, {MaxW}, {DataWorld}, {"a"})
    /\ RoundsInit
    /\ inp = NoInput
    /\ chk = NoPeers

NextRounds == RoundStart \/ Publish \/ StartRequest \/ RunSystem \/ EndRequest

SpecRounds == InitRounds /\ [][NextRounds]_vars

\* ================================================================= claims
\* The systems that restore the data of a component or resource kind.
DataLoaders == {"ComponentHistoryLoad", "ResourceHistoryLoad", "ResourceCopyLoad"}

\* The schedule of a Load request has returned normally.
LoadReturned == cur = NoReq /\ lastReq.op = "Load"

\* The entity snapshot a Load of frame f reads.
HistSnap(f) == entSnaps[FindFrame(entSnaps, f)].snap

\* A Load whose entity snapshot was found has returned normally.
ReconcileReturned == LoadReturned /\ FindFrame(entSnaps, lastReq.frame) # 0

\* C1: every request of the list of one advance_frame call is executed
\* exactly once and in the emitted order (completed, running and waiting
\* requests together are the list, in order), and the schedule of a request
\* has run all its systems and applied its commands before the next starts.
C1_RequestsInOrder ==
    /\ done \o (IF cur = NoReq THEN <<>> ELSE <<cur>>) \o queue = batch
    /\ cur = NoReq => sysq = <<>> /\ cmds = <<>>
    /\ cur # NoReq => ran \o sysq \in Orders(cur.op, kinds)

\* C1's case: a rollback batch (a Load, the resimulation, the Save and the
\* Advance of the current frame) has been executed to its end.
C1_Witness ==
    /\ cur = NoReq /\ queue = <<>> /\ ~panicked
    /\ Len(batch) >= 6 /\ batch[1].op = "Load" /\ done = batch

\* C2: with W >= 1, under a session that saved every frame below its
\* current one and loads only frames within W of it, every load handler
\* finds an entry for the requested frame.
C2_LoadFindsEntry == missed = {}

\* C3: Save(F) immediately followed by Load(F) finds F in every history and
\* leaves the live state (every object's component, the resource) as it was
\* before the Save.
C3_SaveThenLoad ==
    /\ (cur.op = "Load" /\ lastReq = SaveReq(cur.frame)) => ~panicked /\ missed = {}
    /\ (LoadReturned /\ prevReq = SaveReq(lastReq.frame)) =>
            world = prePrev.world /\ res = prePrev.res

\* C3's case: the component and resource were changed by the game before
\* the Save, and the Load after it has returned.
C3_Witness ==
    /\ LoadReturned /\ prevReq = SaveReq(lastReq.frame)
    /\ kinds = {"comp", "res"} /\ world[2].c = "b" /\ res = None /\ lastReq.frame = 2

\* C4: after a Load(F) has completed, the RollbackIds carried by live
\* objects are exactly those recorded in the entity snapshot of frame F.
C4_LiveSetIsHistorical ==
    ReconcileReturned => LiveRids(world) = DOMAIN HistSnap(lastReq.frame)

\* C5: at a Load with live set L and historical set H, exactly the objects
\* whose id is in L but not in H are despawned, one placeholder object is
\* created per id in H but not in L, and the objects whose id is in both
\* stay in place, unchanged.
C5_Reconcile ==
    ReconcileReturned =>
        LET L == LiveRids(pre.world)
            H == DOMAIN HistSnap(lastReq.frame)
        IN /\ (DOMAIN pre.world) \ (DOMAIN world) = {EntOf(pre.world, r) : r \in L \ H}
           /\ Cardinality((DOMAIN world) \ (DOMAIN pre.world)) = Cardinality(H \ L)
           /\ \A r \in L \cap H :
                /\ EntOf(pre.world, r) \in DOMAIN world
                /\ world[EntOf(pre.world, r)] = pre.world[EntOf(pre.world, r)]

\* C5's case: L = {1, 2, 3} and H = {2, 3, 4}; the object of id 1 is gone,
\* one placeholder exists, the objects of ids 2 and 3 are live.
C5_Witness ==
    /\ ReconcileReturned
    /\ LiveRids(pre.world) = {1, 2, 3}
    /\ DOMAIN HistSnap(lastReq.frame) = {2, 3, 4}
    /\ EntOf(pre.world, 1) \notin DOMAIN world
    /\ Cardinality((DOMAIN world) \ (DOMAIN pre.world)) = 1
    /\ LiveRids(world) = {2, 3}

\* C6: the EntityMap of a Load is keyed by the historical identities, one
\* key per historical RollbackId, and maps each to the identity live after
\* the load: the current object of the id, or its placeholder.
C6_MapHistoricalToLive ==
    ReconcileReturned =>
        LET L == LiveRids(pre.world)
            H == HistSnap(lastReq.frame)
        IN /\ {p[1] : p \in entityMap} = {H[r] : r \in DOMAIN H}
           /\ \A r \in (DOMAIN H) \cap L : <<H[r], EntOf(pre.world, r)>> \in entityMap
           /\ \A r \in (DOMAIN H) \ L :
                \E e \in (DOMAIN world) \ (DOMAIN pre.world) : <<H[r], e>> \in entityMap

\* C7: a Load for which some history holds no entry never returns normally.
C7_MissingEntryIsFatal == LoadReturned => missed = {}

\* C8: every snapshot history holds at most W entries, in every state.
C8_AtMostW ==
    /\ Len(compHist) <= W
    /\ Len(resHist) <= W
    /\ Len(copySnaps) <= W

\* C8's case: more entries were pushed than the window holds, and the
\* history is full.
C8_Witness == Len(pushLog.comp) > W /\ Len(compHist) = W /\ Len(resHist) = W

\* C9: a history holds exactly the min(n, W) entries pushed last, newest
\* first, whatever their frame numbers.
C9_NewestW ==
    /\ compHist = Take(pushLog.comp, W)
    /\ resHist = Take(pushLog.res, W)

\* C9's case: frame 0 was pushed twice and frame 1 never (a repeat and a
\* gap), with a window of one entry.
C9_Witness ==
    /\ W = 1 /\ Len(pushLog.comp) = 3 /\ Len(compHist) = 1
    /\ pushLog.comp[1].frame = 2 /\ pushLog.comp[2].frame = 0 /\ pushLog.comp[3].frame = 0

\* C10: within a Load request no data-restoring load handler runs before
\* the reconciliation handler and the flush of its spawns and despawns, and
\* none starts while commands are still queued.
C10_ReconcileFirst ==
    /\ \A i \in 1..Len(ran) :
            ran[i] \in DataLoaders =>
                \E j, k \in 1..Len(ran) :
                    /\ j < k /\ k < i
                    /\ ran[j] = "EntitySnapshotLoad" /\ ran[k] = "EntityFlush"
    /\ (cur.op = "Load" /\ sysq # <<>>) => (Head(sysq) \in DataLoaders => cmds = <<>>)

\* C10's case: a Load that spawned a placeholder has run its data handler.
C10_Witness ==
    /\ cur.op = "Load"
    /\ ran = <<"EntitySnapshotLoad", "EntityFlush", "ResourceCopyLoad">>
    /\ (DOMAIN world) \ (DOMAIN pre.world) # {}

\* An invocation of the driver with a session present has returned.
RunReturned == drv.pc = "idle" /\ drv.runs > 0 /\ drv.hadSess

\* C11: a tick in which advance_frame returns PredictionThreshold or another
\* error executes no request: the frame counter, the histories and the live
\* state stay as the tick found them, and the driver does not panic.
C11_ErrorTickNoMutation ==
    (drv.pc \in {"exec", "loop", "idle"} /\ drv.last \in {"threshold", "error"}) =>
        /\ Observed = drv.tickPre
        /\ batch = <<>> /\ queue = <<>> /\ cur = NoReq
        /\ ~panicked

\* C11's case: after a tick that failed, a later tick has saved and
\* advanced a frame.
C11_Witness ==
    /\ drv.pc = "idle" /\ drv.erred /\ drv.last = "ok"
    /\ lastReq.op = "Advance" /\ frame > 0 /\ resHist # <<>>

\* C12: an invocation with accumulator A after adding the elapsed time and
\* tick period P attempts exactly floor(A / P) ticks (one when A = P) and
\* leaves A - floor(A / P) * P in the accumulator.
C12_TicksFloor ==
    (RunReturned /\ ~drv.reset) =>
        /\ drv.ticks = drv.accIn \div drv.fpsDelta
        /\ drv.acc = drv.accIn - (drv.accIn \div drv.fpsDelta) * drv.fpsDelta

\* C13: an invocation with a session present polls the session exactly
\* once, before any tick, also when no tick fires.
C13_PollOncePerRun ==
    /\ drv.pc = "poll" => drv.polls = 0 /\ drv.ticks = 0
    /\ (drv.pc \in {"loop", "exec"} /\ drv.hadSess) => drv.polls = 1
    /\ RunReturned => drv.polls = 1

\* C13's case: an invocation whose accumulated time was too small for a
\* tick has returned.
C13_Witness ==
    /\ RunReturned /\ drv.accIn > 0 /\ drv.accIn < Period
    /\ drv.ticks = 0 /\ drv.polls = 1

\* C14: after an invocation with a session present, run_slow is true
\* exactly when the session's frames_ahead() is positive.
C14_RunSlowTracksAhead ==
    RunReturned =>
        \A out \in FramesAhead(drv.sess, drv.ahead, drv.behind) :
            ~out.panic /\ (drv.runSlow <=> out.v > 0)

\* The wrapping signed 32-bit successor.
WrappingNext(f) == IF f = I32Max THEN I32Min ELSE f + 1

\* C15: an executed Advance steps the frame counter by one as a wrapping
\* signed 32-bit addition, without failing, and the simulation step reads
\* the counter before the increment.
C15_AdvanceWraps ==
    [][/\ (cur.op = "Advance" /\ cur' = NoReq) =>
            (frame' = WrappingNext(frame) /\ ~panicked')
       /\ (cur.op = "Advance" /\ cur' = cur) => frame' = frame]_vars

\* A button inside the range of its domain: the assertions of map hold and
\* the bank is one of the array.
Representable(dom, b) ==
    LET m == ButtonMap(dom, b, TRUE) IN ~m.panic /\ m.bank < Banks(dom)

\* Every set call so far was made with a representable button and returned.
OnlyRepresentableSet ==
    /\ inp.dom \in ButtonDoms
    /\ ~inp.panic
    /\ \A m \in inp.maps : Representable(inp.dom, m.b)

\* C16: in each button domain, after any sequence of set calls with
\* representable buttons starting from the default value, get(b) returns for
\* every representable button b whether b is among the buttons last set
\* pressed: set(b, v) makes get(b) = v and leaves every other button as it
\* was, so different sets of pressed buttons have different encodings.
C16_SetGetRoundTrip ==
    OnlyRepresentableSet =>
        \A b \in {x \in Buttons(inp.dom) : Representable(inp.dom, x)} :
            LET g == ButtonGet(inp.dom, inp.bytes, b, inp.checks)
            IN ~g.panic /\ g.value = (b \in inp.pressed)

\* Two buttons of one bank are pressed and a third call released a button.
C16_Witness ==
    /\ OnlyRepresentableSet
    /\ inp.n >= 3
    /\ inp.last # None /\ inp.last[2] = FALSE
    /\ \E m1, m2 \in inp.maps :
        /\ m1.b # m2.b /\ m1.bank = m2.bank
        /\ {m1.b, m2.b} \subseteq inp.pressed

\* C17: the gamepad mapping is injective over the buttons it accepted, and a
\* button of gamepad g maps into the banks 8g..8g+7 of that gamepad, also
\* for GamepadButtonType::Other(n) with 19 + n >= 64.
C17_GamepadMapInjective ==
    inp.dom = "pad" =>
        \A m1, m2 \in inp.maps :
            /\ m1.bank \div 8 = m1.b.gamepad
            /\ (m1.b # m2.b => <<m1.bank, m1.channel>> # <<m2.bank, m2.channel>>)

\* C18 (as stated): the default value of every input type is all zero.
C18_DefaultIsZeroed ==
    (inp.dom # "off" /\ inp.n = 0) => inp.bytes = Zeroed(Len(inp.bytes))

\* C18 (amended): the default of the three button encodings is all zero; the
\* default mouse position is the NaN sentinel 7F C0 00 00 in both fields and
\* decodes to None; the default KeyboardAndMouseInput is that sentinel
\* followed by zeroed mouse and keyboard banks.
C18_DefaultIsZeroedOrSentinel ==
    LET sentinel == <<127, 192, 0, 0, 127, 192, 0, 0>> IN
    (inp.dom # "off" /\ inp.n = 0) =>
        /\ inp.dom \in ButtonDoms => inp.bytes = Zeroed(Banks(inp.dom))
        /\ inp.dom = "pos" => inp.bytes = sentinel /\ PositionGet(inp.bytes) = None
        /\ inp.dom = "kbm" =>
            /\ SubSeq(inp.bytes, 1, 8) = sentinel
            /\ SubSeq(inp.bytes, 9, Len(inp.bytes)) = Zeroed(MouseBanks + KeyBanks)

\* A default KeyboardAndMouseInput.
C18_Witness == inp.dom = "kbm" /\ inp.n = 0 /\ Len(inp.bytes) = 8 + MouseBanks + KeyBanks

\* C19: whatever the mouse position held before, after set(None) the bytes
\* are the NaN sentinel in both fields (the same bytes every time) and get
\* returns None; after set(Some(p)) with p finite, get returns Some(p).
C19_PositionRoundTrip ==
    (inp.dom = "pos" /\ inp.n > 0) =>
        /\ inp.last = None =>
            /\ inp.bytes = <<127, 192, 0, 0, 127, 192, 0, 0>>
            /\ PositionGet(inp.bytes) = None
        /\ (inp.last # None /\ IsFinite(inp.last[1]) /\ IsFinite(inp.last[2])) =>
            PositionGet(inp.bytes) = inp.last

\* A finite position with two different coordinates was set after set(None)
\* and a non-finite position.
C19_Witness ==
    /\ inp.dom = "pos" /\ inp.n >= 2
    /\ inp.last # None /\ inp.last[1] \in F32Finite /\ inp.last[2] \in F32Finite
    /\ inp.last[1] # inp.last[2]
    /\ PositionGet(inp.bytes) = inp.last

\* The Saves whose parts can be compared: the last and the one before it,
\* of each peer, each with the state it hashed and the parts it left.
Saves ==
    UNION {{chk[p].saved[i] : i \in 1..Len(chk[p].saved)}
           \cup {chk[p].prev[i] : i \in 1..Len(chk[p].prev)} : p \in Peers}

\* C20: any two Saves, of one peer or of two, that hashed equal state of a
\* kind left equal checksum parts of that kind, whatever their frames, the
\* Saves before them and the ids of the entities.
C20_ChecksumDeterministic ==
    chk # NoPeers =>
        /\ \A p \in Peers : chk[p].saved # <<>> =>
                /\ chk[p].entParts = chk[p].saved[1].entParts
                /\ chk[p].resParts = chk[p].saved[1].resParts
        /\ \A s1, s2 \in Saves :
            /\ Len(s1.entParts) = 1 /\ Len(s1.resParts) = 1
            /\ s1.ent = s2.ent => s1.entParts = s2.entParts
            /\ s1.res = s2.res => s1.resParts = s2.resParts

\* The two peers saved equal state with a live rollback entity at different
\* frames, under different entity ids, one after an earlier Save of another
\* state.
C20_Witness ==
    /\ chk # NoPeers
    /\ chk[1].saved # <<>> /\ chk[2].saved # <<>> /\ chk[1].prev # <<>>
    /\ chk[1].saved[1].ent = chk[2].saved[1].ent
    /\ chk[1].saved[1].res = chk[2].saved[1].res
    /\ chk[1].saved[1].ent[1] > 0
    /\ chk[1].saved[1].frame # chk[2].saved[1].frame
    /\ chk[1].active # chk[2].active
    /\ chk[1].prev[1].ent # chk[1].saved[1].ent
    /\ chk[1].entParts = chk[2].entParts /\ chk[1].resParts = chk[2].resParts

\* C21: try_set_input on a spectator session returns success for every
\* handle and input and leaves the session as it was; on a SyncTest or P2P
\* session the call is the session's add_local_input: it fails for a handle
\* that is not a valid local player handle, leaving the session as it was,
\* and a call that succeeds stores the input under the handle and changes
\* nothing else.
C21_TrySetInput ==
    (drv.pc = "session" /\ drv.calls > 0) =>
        LET handle == drv.call[1]
            input == drv.call[2]
            err == drv.call[3]
        IN /\ drv.ses.kind = "Spectator" => ~err /\ drv.ses = drv.before
           /\ (drv.ses.kind # "Spectator" /\ handle \notin ValidHandles(drv.before)) =>
                err /\ drv.ses = drv.before
           /\ (drv.ses.kind # "Spectator" /\ ~err) =>
                /\ handle \in ValidHandles(drv.before)
                /\ handle \in DOMAIN drv.ses.inputs /\ drv.ses.inputs[handle] = input
                /\ \A h \in (DOMAIN drv.before.inputs) \ {handle} :
                        h \in DOMAIN drv.ses.inputs /\ drv.ses.inputs[h] = drv.before.inputs[h]

\* A spectator session accepted a call.
C21_Witness ==
    /\ drv.pc = "session" /\ drv.calls > 0
    /\ drv.ses.kind = "Spectator" /\ drv.call[3] = FALSE /\ drv.ses = drv.before

\* A P2P session refused the handle of a remote player after storing the
\* input of a local one.
C21_WitnessRefused ==
    /\ drv.pc = "session" /\ drv.calls = 2
    /\ drv.ses.kind = "P2P" /\ drv.call[3] = TRUE
    /\ drv.call[1] \notin drv.ses.local /\ DOMAIN drv.ses.inputs # {}

\* C22: submitting the local inputs never makes the driver fail: a tick
\* submits input for the handles 0..num_players of a SyncTest session and
\* for the local handles of a running P2P session, for none when the
\* session is not running or is a spectator, and every add_local_input
\* succeeds.
C22_InputNeverFatal ==
    /\ drv.pc \in {"exec", "loop", "idle"} => ~panicked /\ drv.last # "panic"
    /\ drv.pc = "exec" =>
        /\ drv.last = "notrunning" => drv.fed = {}
        /\ drv.sess = "Spectator" => drv.fed = {}
        /\ drv.sess = "SyncTest" => 0 \in drv.fed

\* A running P2P session with the second of two players local was given
\* that player's input and advanced.
C22_Witness ==
    /\ drv.pc = "exec" /\ drv.sess = "P2P" /\ drv.last = "ok"
    /\ drv.fed = {1} /\ ~panicked

\* C23: the GameStateCell is in the world exactly while the schedule of a
\* Save or Load request runs, PlayerInputs exactly while the simulation step
\* of an Advance runs; between two requests, and when the driver has
\* returned, neither is there.
C23_ContextScoped ==
    ~panicked =>
        /\ cur.op \in {"Save", "Load"} => ctx = {"GameStateCell"}
        /\ cur.op = "Advance" => ctx = {"PlayerInputs"}
        /\ cur = NoReq => ctx = {}
        /\ drv.pc = "idle" => cur = NoReq /\ ctx = {}

\* The simulation step of an Advance has run with its inputs, after the
\* Save before it and a Load earlier in the same tick gave up their cells.
C23_Witness ==
    /\ cur.op = "Advance" /\ sysq = <<>> /\ ctx = {"PlayerInputs"}
    /\ lastReq.op = "Save" /\ Len(done) >= 3 /\ done[1].op = "Load"
    /\ drv.pc = "exec"

\* C24: the requests executed so far, the running one and those waiting are
\* the events read so far, each once and in the order published; a request
\* published while a schedule of a round runs is not among the requests of
\* that round; every event not yet read was published since the current
\* round began, so the next round takes it.
C24_PublishedDuringRound ==
    drv.pc = "rounds" =>
        /\ done \o (IF cur = NoReq THEN <<>> ELSE <<cur>>) \o queue
                = SubSeq(drv.events, 1, drv.read)
        /\ \A i \in 1..Len(drv.events) :
            /\ (i <= drv.read /\ drv.events[i].during) => drv.events[i].round < drv.round
            /\ i > drv.read => drv.events[i].round = drv.round

\* A request published during a schedule of the first round was executed in
\* the second round, after a request published before that round.
C24_Witness ==
    /\ drv.pc = "rounds" /\ drv.round = 2 /\ cur = NoReq /\ queue = <<>>
    /\ Len(done) >= 2
    /\ done[1].round = 0 /\ ~done[1].during
    /\ done[Len(done)].during /\ done[Len(done)].round = 1

\* C25: while a Save request runs, the stage's own frame counter equals the
\* frame of the request, and the assert_eq of the save handler has not
\* failed; the stream is that of one session that saves its current frame,
\* loads saved frames of its window and steps its frame once per Advance.
C25_SaveAtStageFrame ==
    /\ ~panicked
    /\ cur.op = "Save" => stage.frame = cur.frame /\ frame = cur.frame
    /\ cur.op = "Load" /\ sysq = <<>> => stage.frame = cur.frame

C25_Witness ==
    /\ cur.op = "Save" /\ sysq = <<>> /\ cur.frame = 2 /\ stage.frame = 2
    /\ Len(done) >= 2 /\ done[1].op = "Load" /\ done[1].frame = 1
    /\ stage.loaded # <<>> /\ 2 \in DOMAIN stage.saved
    /\ ~panicked

\* The entries a history holds for frame f.
EntriesOf(states, f) == {i \in 1..Len(states) : states[i].frame = f}

\* The entry pushed last for frame f, by the push log (newest first).
PushedLast(log, f) ==
    log[CHOOSE i \in EntriesOf(log, f) : \A j \in EntriesOf(log, f) : i <= j]

\* C26: once a Load(F) has finished, a history that holds more than one
\* entry for F has given the entry pushed most recently for F: the resource
\* and the components of the rollback objects are those of that entry.
C26_NewestEntryWins ==
    (cur = NoReq /\ lastReq.op = "Load" /\ ~panicked) =>
        /\ Cardinality(EntriesOf(resHist, lastReq.frame)) > 1 =>
              res = PushedLast(pushLog.res, lastReq.frame).snap
        /\ Cardinality(EntriesOf(compHist, lastReq.frame)) > 1 =>
              ComponentMap(world) = PushedLast(pushLog.comp, lastReq.frame).map

C26_Witness ==
    /\ cur = NoReq /\ lastReq.op = "Load" /\ ~panicked
    /\ Cardinality(EntriesOf(resHist, lastReq.frame)) = 2
    /\ Cardinality(EntriesOf(compHist, lastReq.frame)) = 2
    /\ \E i \in EntriesOf(resHist, lastReq.frame) : resHist[i].snap # res
    /\ \E i \in EntriesOf(compHist, lastReq.frame) : compHist[i].map # ComponentMap(world)
    /\ res = PushedLast(pushLog.res, lastReq.frame).snap
    /\ ComponentMap(world) = PushedLast(pushLog.comp, lastReq.frame).map

\* C27: once a Load(F) of the session has finished, the snapshot the stage
\* wrote to the world is the one the most recent Save(F) stored, and not one
\* written for another frame of the same slot.
C27_SlotHoldsLoadedFrame ==
    (cur = NoReq /\ lastReq.op = "Load" /\ "world" \in kinds /\ ~panicked) =>
        /\ lastReq.frame \in DOMAIN stage.saved
        /\ Len(stage.snapshots) = W
        /\ stage.loaded = <<stage.saved[lastReq.frame]>>
        /\ stage.loaded[1].frame = lastReq.frame

C27_Witness ==
    /\ cur = NoReq /\ lastReq.op = "Load" /\ "world" \in kinds /\ ~panicked
    /\ W = 2 /\ lastReq.frame = 2
    /\ stage.loaded = <<stage.saved[2]>>
    /\ 0 \in DOMAIN stage.saved /\ stage.saved[0].res # stage.saved[2].res
    /\ stage.snapshots[2].frame = 1

\* C28: once a Load(F) that found F in its histories has returned, every
\* live rollback object carries the component exactly when the snapshot
\* saved for F has a value for its RollbackId, and then that value; the
\* resource is the one saved for F, or absent when none was; the objects
\* without a RollbackId are as they were before the Load.
C28_LoadRestores ==
    (LoadReturned /\ missed = {} /\ ~panicked) =>
        LET F == lastReq.frame IN
        /\ "comp" \in kinds =>
              LET map == PushedLast(pushLog.comp, F).map
              IN \A e \in RollbackEnts(world) :
                    world[e].c = IF world[e].rb \in DOMAIN map
                                 THEN map[world[e].rb] ELSE None
        /\ "res" \in kinds => res = PushedLast(pushLog.res, F).snap
        /\ "copy" \in kinds => res = PushedLast(pushLog.copy, F).snap
        /\ \A e \in DOMAIN world :
              world[e].rb = NoRid => e \in DOMAIN pre.world /\ world[e] = pre.world[e]

\* C28's case: the Load re-inserted a component removed after F and removed
\* a resource inserted after F.
C28_Witness ==
    /\ LoadReturned /\ missed = {} /\ ~panicked /\ kinds = {"comp", "res"}
    /\ pre.world[2].c = None /\ world[2].c = "a"
    /\ pre.res # None /\ res = None
    /\ world[1] = pre.world[1]

\* C28's case for a component added after F: the Load removed it, and it
\* overwrote the resource.
C28_WitnessRemoved ==
    /\ LoadReturned /\ missed = {} /\ ~panicked /\ kinds = {"comp", "res"}
    /\ pre.world[2].c # None /\ world[2].c = None
    /\ pre.res # None /\ res # None /\ pre.res # res

\* C29: a Load(F) that found F in its histories restores every entry of the
\* component snapshot onto a live object: the assertion 'Not all components
\* could be added back into the world' does not fail, also when an object
\* saved at F was destroyed since and the same Load creates its placeholder.
C29_AllEntriesRestored ==
    (cur.op = "Load" /\ missed = {}) => ~panicked

\* The entries a Load of snapshot H over the live objects wld can put in
\* the EntityMap, the objects of `spawned` being its placeholders.
DerivedEntries(H, wld, spawned) ==
    {<<EntOf(wld, r), H[r]>> : r \in (DOMAIN H) \cap LiveRids(wld)}
    \cup {<<H[r], e>> : r \in (DOMAIN H) \ LiveRids(wld), e \in spawned}

\* C30: after a Load(F) the EntityMap holds only entries built by that Load
\* from the entity snapshot of F and the objects live at the Load, one per
\* RollbackId of the snapshot at most, and none of an earlier Load.
C30_MapRebuilt ==
    ReconcileReturned =>
        /\ entityMap \subseteq DerivedEntries(HistSnap(lastReq.frame), pre.world,
                                             (DOMAIN world) \ (DOMAIN pre.world))
        /\ Cardinality(entityMap) <= Cardinality(DOMAIN HistSnap(lastReq.frame))

\* C30's case: two Loads in a row, of different frames; an object the
\* first Load had an entry for is in no entry of the second.
C30_Witness ==
    /\ ReconcileReturned /\ prevReq.op = "Load" /\ prevReq.frame # lastReq.frame
    /\ FindFrame(entSnaps, prevReq.frame) # 0
    /\ entityMap # {}
    /\ \E r \in (DOMAIN HistSnap(prevReq.frame)) \ (DOMAIN HistSnap(lastReq.frame)) :
            \A p \in entityMap :
                p[1] # HistSnap(prevReq.frame)[r] /\ p[2] # HistSnap(prevReq.frame)[r]

\* No two live rollback objects of wld share a RollbackId.
UniqueRids(wld) ==
    \A e1, e2 \in RollbackEnts(wld) : wld[e1].rb = wld[e2].rb => e1 = e2

\* C31: a Load over live objects with unique RollbackIds leaves them
\* unique, creates placeholders only for the ids no live object carried,
\* keeps every live object whose id is in the snapshot, and never reaches
\* the (None, None) arm of the reconciliation.
C31_ReconcileKeepsUnique ==
    /\ (cur.op = "Load" /\ missed = {} /\ "entity" \in kinds) => ~panicked
    /\ (ReconcileReturned /\ UniqueRids(pre.world)) =>
        LET L == LiveRids(pre.world)
            H == HistSnap(lastReq.frame)
            spawned == (DOMAIN world) \ (DOMAIN pre.world)
        IN /\ UniqueRids(world)
           /\ Cardinality(spawned) = Cardinality((DOMAIN H) \ L)
           /\ \A p \in entityMap :
                p[2] \in spawned => \E r \in (DOMAIN H) \ L : p[1] = H[r]
           /\ \A r \in L \cap DOMAIN H :
                /\ EntOf(pre.world, r) \in DOMAIN world
                /\ world[EntOf(pre.world, r)].rb = r

\* C31's case: the Load met an id that is live and historical, one that is
\* only live and one that is only historical.
C31_Witness ==
    /\ ReconcileReturned /\ UniqueRids(pre.world) /\ ~panicked
    /\ LET L == LiveRids(pre.world)
           H == DOMAIN HistSnap(lastReq.frame)
       IN /\ L \cap H # {} /\ L \ H # {} /\ H \ L # {}
          /\ LiveRids(world) = L \cap H

\* C32: with the window of a Spectator session (0) every history is empty
\* in every state, a Save leaves it empty, every load handler that has run
\* found no entry, and the requests of a Spectator's tick hold neither a
\* Save nor a Load.
C32_SpectatorHistoriesEmpty ==
    /\ compHist = <<>> /\ resHist = <<>> /\ copySnaps = <<>>
    /\ (cur.op = "Load" /\ ran # <<>>) => missed # {}
    /\ (LoadReturned /\ ~panicked) => missed # {}
    /\ \A c \in 0..MaxFrame :
          \A i \in DOMAIN OkRequests("Spectator", c, -1) :
              OkRequests("Spectator", c, -1)[i].op = "Advance"

\* C32's case: frame 1 was saved, the entry was evicted at once, and the
\* load handlers of a Load(1) found nothing.
C32_Witness ==
    /\ W = 0 /\ kinds = {"comp", "res"}
    /\ cur = LoadReq(1) /\ Len(ran) = 1 /\ missed # {}
    /\ Len(pushLog.res) >= 1 /\ pushLog.res[1].frame = 1
    /\ Len(pushLog.comp) >= 1 /\ pushLog.comp[1].frame = 1
    /\ compHist = <<>> /\ resHist = <<>>

\* C33: frames_ahead() returns 0 for a SyncTest session and, for a
\* Spectator session, returns (without failing) a value that is never
\* positive, whatever unsigned 32-bit count frames_behind_host() gave.
C33_SpectatorNeverAhead ==
    (drv.pc = "ahead" /\ drv.out # <<>>) =>
        /\ drv.sess = "SyncTest" => ~drv.out[1].panic /\ drv.out[1].v = 0
        /\ drv.sess = "Spectator" => ~drv.out[1].panic /\ drv.out[1].v <= 0

\* C34: the entity checksum part of a Save is determined by the pair
\* (live rollback objects, rollback objects ever spawned) it hashed, and a
\* Save that follows another with a spawn or a despawn of a rollback object
\* in between hashed a different pair.
C34_EntityPartOfPair ==
    chk # NoPeers =>
        /\ \A s1, s2 \in Saves :
              s1.ent = s2.ent => s1.entParts = s2.entParts
        /\ \A p \in Peers :
              chk[p].saved # <<>> =>
                /\ chk[p].saved[1].entParts =
                      <<EntityChecksum(p, 1..chk[p].saved[1].ent[1], chk[p].saved[1].ent[2])>>
                /\ (chk[p].prev # <<>> /\ chk[p].saved[1].touched) =>
                      chk[p].saved[1].ent # chk[p].prev[1].ent

\* C34's case: between two Saves of a peer one rollback object was spawned
\* and another despawned, so that as many are live as before.
C34_Witness ==
    /\ chk # NoPeers
    /\ \E p \in Peers :
        /\ chk[p].saved # <<>> /\ chk[p].prev # <<>> /\ chk[p].saved[1].touched
        /\ chk[p].saved[1].ent[1] = chk[p].prev[1].ent[1]
        /\ chk[p].saved[1].ent[2] > chk[p].prev[1].ent[2]

\* C35: once a peer has saved, each checksum kind has exactly one part
\* holder, and its value is the one computed from the state the most recent
\* Save hashed; before the first Save there is none.
C35_OneHolderPerKind ==
    chk # NoPeers =>
        \A p \in Peers :
            /\ chk[p].saves = 0 => chk[p].entParts = <<>> /\ chk[p].resParts = <<>>
            /\ chk[p].saves > 0 =>
                /\ chk[p].saved # <<>>
                /\ chk[p].entParts =
                      <<EntityChecksum(p, 1..chk[p].saved[1].ent[1], chk[p].saved[1].ent[2])>>
                /\ chk[p].resParts = <<ResourceChecksum(p, chk[p].saved[1].res)>>

\* C35's case: a peer saved twice with different entity counts and a
\* different resource; each holder carries the value of the second Save.
C35_Witness ==
    /\ chk # NoPeers
    /\ \E p \in Peers :
        /\ chk[p].saves = 2 /\ chk[p].prev # <<>>
        /\ chk[p].prev[1].entParts # chk[p].entParts
        /\ chk[p].prev[1].resParts # chk[p].resParts
        /\ Len(chk[p].entParts) = 1 /\ Len(chk[p].resParts) = 1

\* C36: every invocation of the driver returns: whatever the update
\* frequency (above zero) and the accumulated time, with or without a
\* session, the loop is left after finitely many iterations.
C36_RunTerminates == (drv.pc = "while") ~> (drv.pc = "returned")

\* C37: a tick without a session executes no request and resets the driver
\* (accumulator zero, frame counter 0, run_slow false, snapshots discarded);
\* a session inserted after such a reset starts from frame 0: its first
\* Advance takes the rollback frame counter to 1.
C37_ResetStartsOver ==
    /\ drv.reset => /\ drv.acc = 0 /\ ~drv.runSlow
                    /\ stage.frame = 0 /\ stage.snapshots = <<>>
                    /\ drv.ticks = 0 /\ cur = NoReq /\ queue = <<>>
    /\ ( /\ drv.wasReset /\ drv.sess # NoSession
         /\ sessFrame = 1 /\ drv.pc = "exec"
         /\ cur = NoReq /\ queue = <<>> /\ lastReq.op = "Advance" )
       => frame = 1

\* The bank that map gives the button lies beyond the byte array.
BeyondArray(dom, b) == ButtonMap(dom, b, FALSE).bank >= Banks(dom)

\* C38: get and set on a button whose bank lies beyond the byte array of the
\* encoding (MouseButton::Other(n) with 3 + n >= 24, a gamepad button value
\* of 256 or more, a key code of 168 or more) panic: get returns no value and
\* set leaves every byte as it was.
C38_BeyondArrayPanics ==
    /\ [](inp.dom \in ButtonDoms =>
            \A b \in {x \in Buttons(inp.dom) : BeyondArray(inp.dom, x)} :
                ButtonGet(inp.dom, inp.bytes, b, inp.checks).panic)
    /\ [][(/\ inp.dom \in ButtonDoms
           /\ inp'.n = inp.n + 1
           /\ BeyondArray(inp.dom, inp'.last[1]))
          => (inp'.panic /\ inp'.bytes = inp.bytes)]_vars

\* A set call on a button beyond the array panicked while buttons of the
\* last bank were pressed.
C38_Witness ==
    /\ inp.dom \in ButtonDoms
    /\ inp.panic
    /\ inp.last # None /\ BeyondArray(inp.dom, inp.last[1])
    /\ inp.pressed # {}
    /\ inp.bytes[Len(inp.bytes)] # 0

====
